---- MODULE Spec2Model ----
(***************************************************************************)
(* PlotLab: path-order optimizer (docs/js/pathOptimizer.js), G-code        *)
(* generator (src/js/gcodeGenerator.js) and G-code validator               *)
(* (gcodeValidator.js).                                                    *)
(*                                                                         *)
(* Each component is a stateless static class; its entry point is one      *)
(* action applied to inputs drawn from bounded sets by the initial         *)
(* predicate of the component's specification (SpecOpt, SpecGen, SpecVal). *)
(***************************************************************************)
EXTENDS Integers, Sequences, FiniteSets, TLC

VARIABLES
    \* ---- PathOptimizer.optimize(polylines, startPoint, use2Opt)
    polylines,      \* the argument: a list of polylines (lists of points)
    startPoint,     \* the argument: [x, y]
    use2Opt,        \* the argument: boolean
    optPc,          \* "call" before optimize has run, "done" after it returned
    optResult,      \* the value optimize returned
    \* ---- GCodeValidator.validate(gcode, settings)
    valDoc,         \* what the lines of gcode were written to mean
    valGcode,       \* the argument: the G-code text
    valSettings,    \* the argument: {bedWidth, bedHeight, maxZ, maxFeedRate}
    valPc,          \* "call" before validate has run, "done" after
    valResult,      \* the value validate returned
    \* ---- GCodeGenerator.generate(polylines, settings) and
    \* ---- GCodeGenerator._expandTemplate(template, context)
    genCall,        \* which of the two is called: "generate" or "expand"
    genPolylines,   \* generate's argument: a list of polylines or nulls
    genSettings,    \* generate's argument: the Settings record
    genNow,         \* what new Date().toISOString() gives during the call
    genPc,          \* "call" before the call has run, "done" after
    genResult,      \* the text generate returned
    genHeaderEnd,   \* gcode.length once the header and its blank line are pushed
    genBodyEnd,     \* gcode.length once the forEach over the polylines is over
    tplTemplate,    \* _expandTemplate's argument: the template text
    tplContext,     \* _expandTemplate's argument: the context object
    tplResult,      \* the text _expandTemplate returned
    \* ---- SVGManager.getTransformedPolylines(svg)
    xfSvg,          \* the argument: an SVGObject
    xfPc,           \* "call" before the call has run, "done" after
    xfResult,       \* the polylines returned
    \* ---- SVGManager (docs/js)
    svgManager,     \* the manager: svgObjects, selectedId, nextId, bed size
    mgrCall,        \* the last call made on the manager
    \* ---- App (docs/js): importing a file
    app,            \* selectedSVGId, pendingHistoryAction, history
    appPc,          \* "idle", or the dialog the import handler awaits
    appImport,      \* the import run last, when no other handler ran since:
                    \* file, parsed result, dialog answers, and the manager
                    \* and app as they were when it began
    appAlert,       \* the message of the last import's alert, <<>> without one
    \* ---- SVGProcessor._samplePath(d, samplesPerUnit)
    pathD,          \* the commands of d read so far, each with its arguments
    pathState,      \* the sampler's state object
    pathBefore,     \* the state object before the command read last
    pathPc,         \* "sampling" while commands are read, "done" at the end
    pathResult,     \* the polylines returned
    \* ---- SVGProcessor._getTransformMatrix(element), _applyTransform
    tfChain,        \* the transform attributes from the element up to the root
    tfPolyline,     \* the polyline the resolved matrix is applied to
    tfCurrent,      \* the loop's current: its place in the chain
    tfMatrix,       \* the loop's matrix
    tfPc,           \* "walking" up the ancestors, "done" after _applyTransform
    tfResult,       \* the polyline _applyTransform returned
    \* ---- PathOptimizer._greedyNearestNeighbor and _twoOptImprovement,
    \* ---- loop by loop, as optimize calls them with use2Opt
    tourSegments,   \* the segments optimize made of its polylines
    tourStart,      \* startPoint
    tourRemaining,  \* the greedy loop's remaining
    tourResult,     \* the greedy loop's result
    tourPoint,      \* the greedy loop's currentPoint
    tourSelections, \* how many rounds the greedy while loop has made
    tourOptimized,  \* what _greedyNearestNeighbor returned
    tourNow,        \* the 2-opt loop's tour
    tourImproved,   \* the 2-opt loop's improved
    tourIterations, \* the 2-opt loop's iterations
    tourI,          \* the 2-opt loop's i
    tourJ,          \* the 2-opt loop's j
    tourReversals,  \* how many times tour = newTour ran in the pass at hand
    tourPc,         \* "greedy", "while", "pairs", "done"
    \* ---- HistoryManager (src/js)
    historyManager, \* the manager: undoStack, redoStack
    histBefore,     \* the manager before the call made last
    histCall,       \* the call made last and what it returned
    histPushed,     \* how many times pushState was called
    histUndone,     \* how many times undo was called
    \* ---- App (docs/js): undo and redo
    appLog,         \* the handlers run so far, each with the drawing it was
                    \* about and the manager's drawings after it
    \* ---- GCodeGenerator.generate, then GCodeValidator.validate
    chkPolylines,   \* the polylines handed to generate
    chkBed,         \* bedWidth and bedHeight, given to both
    chkGcode,       \* the text generate returned
    chkResult,      \* what validate returned for it
    chkPc,          \* "generate", "validate", "done"
    \* ---- App._getSafetyWarnings, generate and Preview3D.checkCollisions
    sfPolylines,    \* the polylines of the visible drawings
    sfSettings,     \* what _getSettings returns
    sfEmitted,      \* the body lines generate pushed
    sfWarnings,     \* what _getSafetyWarnings counted
    sfCollisions,   \* what checkCollisions returned
    sfDone,         \* the handlers that have run
    \* ---- ExclusionZonesManager
    exclusionZones, \* the manager: zones, nextId
    zoneCall,       \* the call made last
    \* ---- ProjectManager (src/js) and App._applyProjectData
    projSvgManager, \* the SVGManager (src/js) of the project manager
    projZones,      \* its ExclusionZonesManager
    projThrew,      \* whether the call made last threw
    projData,       \* what createProject returned
    projPc,         \* "edit", "created", "applied"
    \* ---- SVGManager (src/js): addSVG, then getTransformedPolylines
    ctrInput,       \* the arguments of addSVG
    ctrManager,     \* the manager after addSVG
    ctrResult,      \* what getTransformedPolylines returned for the drawing
    ctrPc,          \* "add", "transform", "done"
    \* ---- ImageImportDialog
    dialog          \* the dialog's fields, its timer, the conversions under
                    \* way and what show() was resolved with

tourVars == <<tourSegments, tourStart, tourRemaining, tourResult, tourPoint,
              tourSelections, tourOptimized, tourNow, tourImproved,
              tourIterations, tourI, tourJ, tourReversals, tourPc>>

optVars == <<polylines, startPoint, use2Opt, optPc, optResult, tourVars>>
valVars == <<valDoc, valGcode, valSettings, valPc, valResult>>

genVars == <<genCall, genPolylines, genSettings, genNow, genPc, genResult,
             genHeaderEnd, genBodyEnd, tplTemplate, tplContext, tplResult>>

xfVars == <<xfSvg, xfPc, xfResult>>

\* The components that deal with drawings (SVG).
mgrVars == <<svgManager, mgrCall>>

appVars == <<app, appPc, appImport, appAlert>>

pathVars == <<pathD, pathState, pathBefore, pathPc, pathResult>>

tfVars == <<tfChain, tfPolyline, tfCurrent, tfMatrix, tfPc, tfResult>>

histVars == <<historyManager, histBefore, histCall, histPushed, histUndone>>

\* The components around the drawings: history, project, zones, dialogs.
undoVars == <<appLog>>

chkVars == <<chkPolylines, chkBed, chkGcode, chkResult, chkPc>>

sfVars == <<sfPolylines, sfSettings, sfEmitted, sfWarnings, sfCollisions, sfDone>>

zoneVars == <<exclusionZones, zoneCall>>

projVars == <<projSvgManager, projZones, projThrew, projData, projPc>>

ctrVars == <<ctrInput, ctrManager, ctrResult, ctrPc>>

dlgVars == <<dialog>>

restVars == <<projVars, ctrVars, dlgVars>>

extVars == <<histVars, undoVars, chkVars, sfVars, zoneVars, restVars>>

svgVars == <<xfVars, mgrVars, appVars, pathVars, tfVars, extVars>>

vars == <<optVars, valVars, genVars, svgVars>>

\* getTransformedPolylines before any call of the specification at hand.
XfIdle ==
    /\ xfSvg = <<>>
    /\ xfPc = "idle"
    /\ xfResult = <<>>

\* No SVGManager in the specification at hand.
MgrIdle ==
    /\ svgManager = <<>>
    /\ mgrCall = <<>>

\* No App in the specification at hand.
AppIdle ==
    /\ app = <<>>
    /\ appPc = "none"
    /\ appImport = <<>>
    /\ appAlert = <<>>

\* No path sampled in the specification at hand.
PathIdle ==
    /\ pathD = <<>>
    /\ pathState = <<>>
    /\ pathBefore = <<>>
    /\ pathPc = "none"
    /\ pathResult = <<>>

TfIdle ==
    /\ tfChain = <<>>
    /\ tfPolyline = <<>>
    /\ tfCurrent = 0
    /\ tfMatrix = <<>>
    /\ tfPc = "none"
    /\ tfResult = <<>>

\* No HistoryManager in the specification at hand.
HistIdle ==
    /\ historyManager = <<>>
    /\ histBefore = <<>>
    /\ histCall = <<>>
    /\ histPushed = 0
    /\ histUndone = 0

UndoIdle == appLog = <<>>

ChkIdle ==
    /\ chkPolylines = <<>>
    /\ chkBed = <<>>
    /\ chkGcode = <<>>
    /\ chkResult = <<>>
    /\ chkPc = "none"

SfIdle ==
    /\ sfPolylines = <<>>
    /\ sfSettings = <<>>
    /\ sfEmitted = <<>>
    /\ sfWarnings = <<>>
    /\ sfCollisions = <<>>
    /\ sfDone = {}

ZoneIdle ==
    /\ exclusionZones = <<>>
    /\ zoneCall = <<>>

\* The components added last, idle.
ProjIdle ==
    /\ projSvgManager = <<>>
    /\ projZones = <<>>
    /\ projThrew = FALSE
    /\ projData = <<>>
    /\ projPc = "idle"

CtrIdle ==
    /\ ctrInput = <<>>
    /\ ctrManager = <<>>
    /\ ctrResult = <<>>
    /\ ctrPc = "idle"

DlgIdle == dialog = <<>>

RestIdle == ProjIdle /\ CtrIdle /\ DlgIdle

LaterIdle == SfIdle /\ ZoneIdle /\ RestIdle

laterVars == <<sfVars, zoneVars, restVars>>

ExtIdle == HistIdle /\ UndoIdle /\ ChkIdle /\ LaterIdle

SvgIdle == XfIdle /\ MgrIdle /\ AppIdle /\ PathIdle /\ TfIdle /\ ExtIdle

(***************************************************************************)
(* Generic helpers on sequences.                                           *)
(***************************************************************************)
\* Array.prototype.reverse on a copy: the same elements, last first.
Reverse(s) == [i \in 1..Len(s) |-> s[Len(s) + 1 - i]]

\* Array.prototype.splice(i, 1) (1-based here): the list without element i.
RemoveAt(s, i) == [k \in 1..(Len(s) - 1) |-> IF k < i THEN s[k] ELSE s[k + 1]]

Abs(x) == IF x < 0 THEN -x ELSE x

\* All lists over S of length lo..hi.
SeqsOf(S, lo, hi) == UNION {[1..n -> S] : n \in lo..hi}

(***************************************************************************)
(* Text.  A JavaScript string is a sequence of one-character strings, so   *)
(* that formatting, template expansion and the validator's regular         *)
(* expressions work on characters as the code does.                        *)
(***************************************************************************)
UpperChars ==
    <<"A", "B", "C", "D", "E", "F", "G", "H", "I", "J", "K", "L", "M",
      "N", "O", "P", "Q", "R", "S", "T", "U", "V", "W", "X", "Y", "Z">>
LowerChars ==
    <<"a", "b", "c", "d", "e", "f", "g", "h", "i", "j", "k", "l", "m",
      "n", "o", "p", "q", "r", "s", "t", "u", "v", "w", "x", "y", "z">>
DigitChars == <<"0", "1", "2", "3", "4", "5", "6", "7", "8", "9">>

Upper == {UpperChars[i] : i \in 1..26}
Lower == {LowerChars[i] : i \in 1..26}
Digit == {DigitChars[i] : i \in 1..10}

\* \s as far as the inputs go: space, tab, line feed and carriage return.
WhiteSpace == {" ", "\t", "\n", "\r"}

\* \w
WordChars == Upper \cup Lower \cup Digit \cup {"_"}

IsWordChar(c) == c \in WordChars

\* String.prototype.toUpperCase on one character; the /i flag.
ToUpper(c) ==
    IF c \in Lower THEN UpperChars[CHOOSE i \in 1..26 : LowerChars[i] = c] ELSE c

ToUpperStr(s) == [i \in 1..Len(s) |-> ToUpper(s[i])]

DigitVal(c) == (CHOOSE i \in 1..10 : DigitChars[i] = c) - 1

\* String.prototype.trim
Trim(s) ==
    LET keep == {i \in 1..Len(s) : s[i] \notin WhiteSpace}
    IN  IF keep = {} THEN <<>>
        ELSE SubSeq(s, CHOOSE a \in keep : \A b \in keep : a <= b,
                       CHOOSE a \in keep : \A b \in keep : a >= b)

\* The end of the piece that starts at position start: the position of the
\* first separator at or after start, or Len(s) + 1.
PieceEnd(s, sep, start) ==
    CHOOSE e \in start..(Len(s) + 1) :
        /\ e = Len(s) + 1 \/ s[e] = sep
        /\ \A k \in start..(e - 1) : s[k] # sep

\* String.prototype.split(sep) for a one-character separator: the pieces
\* between one separator and the next.
Split(s, sep) ==
    LET seps == {k \in 1..Len(s) : s[k] = sep}
        n == Cardinality(seps)
        SepAt(j) ==
            IF j = 0 THEN 0
            ELSE IF j = n + 1 THEN Len(s) + 1
            ELSE CHOOSE k \in seps : Cardinality({m \in seps : m < k}) = j - 1
    IN  [j \in 1..(n + 1) |-> SubSeq(s, SepAt(j - 1) + 1, SepAt(j) - 1)]

\* Array.prototype.join(sep)
RECURSIVE JoinRange(_, _, _, _)
JoinRange(parts, sep, lo, hi) ==
    IF lo = hi THEN parts[lo]
    ELSE LET mid == (lo + hi) \div 2
         IN  JoinRange(parts, sep, lo, mid) \o <<sep>> \o JoinRange(parts, sep, mid + 1, hi)

Join(parts, sep) == IF Len(parts) = 0 THEN <<>> ELSE JoinRange(parts, sep, 1, Len(parts))

\* String.prototype.startsWith
StartsWith(s, prefix) ==
    Len(s) >= Len(prefix) /\ SubSeq(s, 1, Len(prefix)) = prefix

(***************************************************************************)
(* Numbers.  A finite JavaScript number is an integer count of             *)
(* ten-thousandths (1.5 is 15000): fine enough for toFixed(3) and          *)
(* Math.round to have something to round.                                  *)
(***************************************************************************)
Den == 10000

Num(n) == n * Den

\* The largest index e >= q - 1 such that s[q..e] are all digits: \d* from q.
DigitsEnd(s, q) ==
    CHOOSE e \in (q - 1)..Len(s) :
        /\ \A k \in q..e : s[k] \in Digit
        /\ e = Len(s) \/ s[e + 1] \notin Digit

\* The value of a run of digits, most significant first.
RECURSIVE DigitsValue(_)
DigitsValue(ds) ==
    IF Len(ds) = 0 THEN 0
    ELSE 10 * DigitsValue(SubSeq(ds, 1, Len(ds) - 1)) + DigitVal(ds[Len(ds)])

\* The first four decimals of a run of fraction digits, as ten-thousandths.
FractionValue(ds) ==
    DigitsValue([i \in 1..4 |-> IF i <= Len(ds) THEN ds[i] ELSE "0"])

\* parseFloat on [-+]?\d+\.?\d* (what the validator's groups capture).
parseFloat(t) ==
    LET signed == Len(t) > 0 /\ t[1] \in {"-", "+"}
        q == IF signed THEN 2 ELSE 1
        e == DigitsEnd(t, q)
        frac == IF e < Len(t) /\ t[e + 1] = "."
                THEN SubSeq(t, e + 2, DigitsEnd(t, e + 2)) ELSE <<>>
        mag == DigitsValue(SubSeq(t, q, e)) * Den + FractionValue(frac)
    IN  IF signed /\ t[1] = "-" THEN -mag ELSE mag

\* The decimal digits of a natural number.
RECURSIVE NatToString(_)
NatToString(n) ==
    IF n < 10 THEN <<DigitChars[n + 1]>>
    ELSE NatToString(n \div 10) \o <<DigitChars[(n % 10) + 1]>>

\* Number.prototype.toFixed(3): the nearest thousandth, a tie going away from
\* zero, with exactly three decimals; the sign is that of the number itself,
\* so -0.0004 gives "-0.000".
toFixed3(v) ==
    LET unit == Den \div 1000
        n == (Abs(v) + unit \div 2) \div unit
        frac == n % 1000
    IN  (IF v < 0 THEN <<"-">> ELSE <<>>)
        \o NatToString(n \div 1000) \o <<".">>
        \o <<DigitChars[(frac \div 100) + 1], DigitChars[((frac \div 10) % 10) + 1],
             DigitChars[(frac % 10) + 1]>>

\* The fraction digits of Number::toString: no trailing zeros.
RECURSIVE FractionDigits(_, _)
FractionDigits(frac, width) ==
    IF frac = 0 THEN <<>>
    ELSE <<DigitChars[(frac \div (width \div 10)) + 1]>>
         \o FractionDigits((frac % (width \div 10)) * 10, width)

\* Number::toString, as a template literal ${v} applies it: an integer
\* prints without a decimal point, any other number with its decimals.
NumberToString(v) ==
    (IF v < 0 THEN <<"-">> ELSE <<>>)
    \o NatToString(Abs(v) \div Den)
    \o (IF Abs(v) % Den = 0 THEN <<>>
        ELSE <<".">> \o FractionDigits(Abs(v) % Den, Den))

\* Math.round: the nearest integer, a tie going up.
MathRound(v) == ((2 * v + Den) \div (2 * Den)) * Den

(***************************************************************************)
(* PathOptimizer                                                           *)
(*                                                                         *)
(* Coordinates are integers (mm) taken from a set of points whose pairwise *)
(* distances are all integers, so that Math.sqrt is exact on every         *)
(* distance the optimizer computes and sums of distances are exact too.    *)
(***************************************************************************)
\* Bounds of the optimizer's inputs.
MaxPolylines == 3

\* (0,0), (5,0), (-9,0), (0,12): 5-12-13 and 9-12-15 triangles on the axes.
OptPoints == {<<5, 0>>, <<-9, 0>>, <<0, 12>>}
StartPoints == {<<0, 0>>, <<5, 0>>}

\* The strokes: every dot and every two-point stroke over OptPoints, and one
\* longer stroke, so that a reversal is more than a swap of two points.
LongPolylines == {<<<<5, 0>>, <<0, 12>>, <<-9, 0>>>>}
OptPolylines ==
    {<<p>> : p \in OptPoints} \cup (OptPoints \X OptPoints) \cup LongPolylines

\* Math.sqrt on a perfect square that is at most hi * hi.
Sqrt(n, hi) == CHOOSE r \in 0..hi : r * r = n

\* bestDistance = Infinity: larger than every distance.
Infinity == 1000000

_distance(p1, p2) ==
    LET dx == p2[1] - p1[1]
        dy == p2[2] - p1[2]
    IN  Sqrt(dx * dx + dy * dy, Abs(dx) + Abs(dy))

\* The metadata optimize builds for polyline number index (0-based in the code).
Segment(polyline, index) ==
    [index |-> index,
     polyline |-> polyline,
     start |-> polyline[1],
     end |-> polyline[Len(polyline)],
     reversed |-> FALSE]

\* The for loop of _greedyNearestNeighbor, from candidate i on: best is
\* (bestIndex, bestDistance, bestReversed); bestIndex 0 stands for -1.
RECURSIVE ScanNearest(_, _, _, _)
ScanNearest(remaining, currentPoint, i, best) ==
    IF i > Len(remaining) THEN best
    ELSE LET seg == remaining[i]
             distToStart == _distance(currentPoint, seg.start)
             b1 == IF distToStart < best.bestDistance
                   THEN [bestIndex |-> i, bestDistance |-> distToStart,
                         bestReversed |-> FALSE]
                   ELSE best
             distToEnd == _distance(currentPoint, seg.end)
             b2 == IF distToEnd < b1.bestDistance
                   THEN [bestIndex |-> i, bestDistance |-> distToEnd,
                         bestReversed |-> TRUE]
                   ELSE b1
         IN  ScanNearest(remaining, currentPoint, i + 1, b2)

\* A slip in the position update: the end of the stroke as stored, whatever
\* the direction it is traversed in.
NextPointStoredEnd(chosen, bestReversed) == chosen.end

\* currentPoint = bestReversed ? chosen.start : chosen.end
NextPoint(chosen, bestReversed) ==
    IF bestReversed THEN chosen.start ELSE chosen.end

\* The while loop of _greedyNearestNeighbor.
RECURSIVE GreedyLoop(_, _, _)
GreedyLoop(result, remaining, currentPoint) ==
    IF Len(remaining) = 0 THEN result
    ELSE LET best == ScanNearest(remaining, currentPoint, 1,
                         [bestIndex |-> 0, bestDistance |-> Infinity,
                          bestReversed |-> FALSE])
             chosen == [remaining[best.bestIndex]
                           EXCEPT !.reversed = best.bestReversed]
         IN  GreedyLoop(Append(result, chosen),
                        RemoveAt(remaining, best.bestIndex),
                        NextPoint(chosen, best.bestReversed))

_greedyNearestNeighbor(segments, sp) == GreedyLoop(<<>>, segments, sp)

\* _getTourSegmentDistance(tour, i, j, startPoint), i and j 0-based as in the
\* code; the loop over k = i..j from k on, with the running dist and point.
RECURSIVE TourDistFrom(_, _, _, _, _)
TourDistFrom(tour, k, j, currentPoint, dist) ==
    IF k > j THEN dist
    ELSE LET seg == tour[k + 1]
             segStart == IF seg.reversed THEN seg.end ELSE seg.start
             segEnd == IF seg.reversed THEN seg.start ELSE seg.end
         IN  TourDistFrom(tour, k + 1, j, segEnd,
                          dist + _distance(currentPoint, segStart))

_getTourSegmentDistance(tour, i, j, sp) ==
    LET currentPoint ==
            IF i = 0 THEN sp
            ELSE IF tour[i].reversed THEN tour[i].start ELSE tour[i].end
    IN  TourDistFrom(tour, i, j, currentPoint, 0)

\* newTour: tour with positions i+1..j (0-based) in reverse order.
ReverseSlice(tour, i, j) ==
    [k \in 1..Len(tour) |->
        IF k - 1 >= i + 1 /\ k - 1 <= j THEN tour[(i + 1) + j - (k - 1) + 1]
        ELSE tour[k]]

\* newDist < currentDist - 0.01, in hundredths of a millimetre.
Improves(newDist, currentDist) == 100 * newDist < 100 * currentDist - 1

\* The pairs (i, j) the two for loops visit, in the order they visit them.
TwoOptPairs(n) ==
    LET P == {<<i, j>> \in (0..(n - 2)) \X (0..(n - 1)) : j >= i + 2}
        Before(a, b) == a[1] < b[1] \/ (a[1] = b[1] /\ a[2] < b[2])
    IN  [P |-> P, Before |-> [a \in P |-> {b \in P : Before(b, a)}]]

\* One pass of the while loop: the first improving pair, or none.
FirstImproving(tour, sp) ==
    LET pairs == TwoOptPairs(Len(tour))
        good == {p \in pairs.P :
                    Improves(_getTourSegmentDistance(
                                 ReverseSlice(tour, p[1], p[2]), p[1], p[2], sp),
                             _getTourSegmentDistance(tour, p[1], p[2], sp))}
    IN  IF good = {} THEN <<>>
        ELSE <<CHOOSE p \in good : pairs.Before[p] \cap good = {}>>

maxIterations == 100

RECURSIVE TwoOptLoop(_, _, _)
TwoOptLoop(tour, sp, iterations) ==
    IF iterations >= maxIterations THEN tour
    ELSE LET found == FirstImproving(tour, sp)
         IN  IF found = <<>> THEN tour
             ELSE TwoOptLoop(ReverseSlice(tour, found[1][1], found[1][2]),
                             sp, iterations + 1)

\* Returns the tour: a list of segment records.
_twoOptImprovement(segments, sp) ==
    IF Len(segments) < 4 THEN segments
    ELSE TwoOptLoop(segments, sp, 0)

\* seg.reversed ? [...seg.polyline].reverse() : seg.polyline
EmitPolyline(seg) ==
    IF seg.reversed THEN Reverse(seg.polyline) ELSE seg.polyline

\* What optimize returns: a list whose elements are polylines (arrays of
\* points) or segment records; of says which.
optimize(pls, sp, u2) ==
    IF Len(pls) <= 1 THEN [of |-> "polylines", list |-> pls]
    ELSE LET segments == [i \in 1..Len(pls) |-> Segment(pls[i], i - 1)]
             optimized == _greedyNearestNeighbor(segments, sp)
         IN  IF u2 /\ Len(optimized) < 100
             THEN [of |-> "segments",
                   list |-> _twoOptImprovement(optimized, sp)]
             ELSE [of |-> "polylines",
                   list |-> [i \in 1..Len(optimized) |->
                                EmitPolyline(optimized[i])]]

NoResult == [of |-> "none", list |-> <<>>]

\* The generator before any call of the specification at hand.
GenIdle ==
    /\ genCall = "none"
    /\ genPolylines = <<>>
    /\ genSettings = <<>>
    /\ genNow = <<>>
    /\ genPc = "idle"
    /\ genResult = <<>>
    /\ genHeaderEnd = 0
    /\ genBodyEnd = 0
    /\ tplTemplate = <<>>
    /\ tplContext = <<>>
    /\ tplResult = <<>>

\* The validator before any call of the specification at hand.
ValIdle ==
    /\ valDoc = <<>>
    /\ valGcode = <<>>
    /\ valSettings = <<>>
    /\ valPc = "idle"
    /\ valResult = <<>>

\* The loops of the optimizer before any call.
TourIdle ==
    /\ tourSegments = <<>>
    /\ tourStart = <<0, 0>>
    /\ tourRemaining = <<>>
    /\ tourResult = <<>>
    /\ tourPoint = <<0, 0>>
    /\ tourSelections = 0
    /\ tourOptimized = <<>>
    /\ tourNow = <<>>
    /\ tourImproved = FALSE
    /\ tourIterations = 0
    /\ tourI = 0
    /\ tourJ = 0
    /\ tourReversals = 0
    /\ tourPc = "none"

\* The optimizer before any call.
OptIdle ==
    /\ TourIdle
    /\ polylines = <<>>
    /\ startPoint = <<0, 0>>
    /\ use2Opt = FALSE
    /\ optPc = "idle"
    /\ optResult = NoResult

InitOpt ==
    /\ TourIdle
    /\ ValIdle
    /\ GenIdle
    /\ SvgIdle
    /\ polylines \in SeqsOf(OptPolylines, 0, MaxPolylines)
    /\ startPoint \in StartPoints
    /\ use2Opt \in BOOLEAN
    /\ optPc = "call"
    /\ optResult = NoResult

Optimize ==
    /\ optPc = "call"
    /\ optResult' = optimize(polylines, startPoint, use2Opt)
    /\ optPc' = "done"
    /\ UNCHANGED <<polylines, startPoint, use2Opt, tourVars, valVars, genVars, svgVars>>

NextOpt == Optimize

SpecOpt == InitOpt /\ [][NextOpt]_vars

(***************************************************************************)
(* PathOptimizer._greedyNearestNeighbor and _twoOptImprovement, loop by    *)
(* loop, as optimize runs them for two polylines or more with use2Opt.     *)
(***************************************************************************)
MaxTourPolylines == 5

\* Strokes between points whose distances are whole: (0,0), (5,0), (0,12)
\* and (-9,0).
TourPolylines ==
    { <<<<0, 0>>, <<5, 0>>>>,
      <<<<0, 12>>, <<0, 0>>>>,
      <<<<0, 12>>, <<-9, 0>>>> }

TourStartPoints == {<<0, 0>>}

\* Before optimize is called.
InitTour ==
    /\ OptIdle
    /\ ValIdle
    /\ GenIdle
    /\ SvgIdle

\* optimize is called with two polylines or more and use2Opt: it makes the
\* segments and enters _greedyNearestNeighbor.
CallOptimize ==
    /\ tourPc = "none"
    /\ \E pls \in SeqsOf(TourPolylines, 2, MaxTourPolylines) :
           tourSegments' = [i \in 1..Len(pls) |-> Segment(pls[i], i - 1)]
    /\ tourStart' \in TourStartPoints
    /\ tourRemaining' = tourSegments'
    /\ tourResult' = <<>>
    /\ tourPoint' = tourStart'
    /\ tourSelections' = 0
    /\ tourPc' = "greedy"
    /\ UNCHANGED <<tourOptimized, tourNow, tourImproved, tourIterations,
                   tourI, tourJ, tourReversals,
                   polylines, startPoint, use2Opt, optPc, optResult,
                   valVars, genVars, svgVars>>

\* One round of while (remaining.length > 0).
GreedySelect ==
    /\ tourPc = "greedy"
    /\ Len(tourRemaining) > 0
    /\ \E best \in {ScanNearest(tourRemaining, tourPoint, 1,
                           [bestIndex |-> 0, bestDistance |-> Infinity,
                            bestReversed |-> FALSE])} :
       \E chosen \in {[tourRemaining[best.bestIndex]
                           EXCEPT !.reversed = best.bestReversed]} :
           /\ tourRemaining' = RemoveAt(tourRemaining, best.bestIndex)
           /\ tourResult' = Append(tourResult, chosen)
           /\ tourPoint' = NextPoint(chosen, best.bestReversed)
    /\ tourSelections' = tourSelections + 1
    /\ UNCHANGED <<tourSegments, tourStart, tourOptimized, tourNow, tourImproved,
                   tourIterations, tourI, tourJ, tourReversals, tourPc,
                   polylines, startPoint, use2Opt, optPc, optResult,
                   valVars, genVars, svgVars>>

\* remaining is empty: result is returned to optimize, which hands it to
\* _twoOptImprovement; fewer than 4 segments are returned as they are.
GreedyReturn ==
    /\ tourPc = "greedy"
    /\ Len(tourRemaining) = 0
    /\ tourOptimized' = tourResult
    /\ tourNow' = tourResult
    /\ IF Len(tourResult) < 4
       THEN tourPc' = "done" /\ tourImproved' = tourImproved
       ELSE tourPc' = "while" /\ tourImproved' = TRUE
    /\ UNCHANGED <<tourSegments, tourStart, tourRemaining, tourResult, tourPoint,
                   tourSelections, tourIterations, tourI, tourJ, tourReversals,
                   polylines, startPoint, use2Opt, optPc, optResult,
                   valVars, genVars, svgVars>>

\* while (improved && iterations < maxIterations)
WhileUncapped(isImproved, count) == isImproved

WhileGoesOn(isImproved, count) == isImproved /\ count < maxIterations

\* The head of a pass, up to the first pair (0, 2).
BeginPass ==
    /\ tourPc = "while"
    /\ WhileGoesOn(tourImproved, tourIterations)
    /\ tourImproved' = FALSE
    /\ tourIterations' = tourIterations + 1
    /\ tourReversals' = 0
    /\ tourI' = 0
    /\ tourJ' = 2
    /\ tourPc' = "pairs"
    /\ UNCHANGED <<tourSegments, tourStart, tourRemaining, tourResult, tourPoint,
                   tourSelections, tourOptimized, tourNow,
                   polylines, startPoint, use2Opt, optPc, optResult,
                   valVars, genVars, svgVars>>

\* The body of the inner for loop for the pair (i, j), and what the two
\* loops do next: break out of both after tour = newTour, else the next j,
\* else the next i that has a j.
TryPair ==
    /\ tourPc = "pairs"
    /\ LET n == Len(tourNow)
           currentDist == _getTourSegmentDistance(tourNow, tourI, tourJ, tourStart)
           newTour == ReverseSlice(tourNow, tourI, tourJ)
           newDist == _getTourSegmentDistance(newTour, tourI, tourJ, tourStart)
       IN  IF Improves(newDist, currentDist)
           THEN /\ tourNow' = newTour
                /\ tourImproved' = TRUE
                /\ tourReversals' = tourReversals + 1
                /\ tourPc' = "while"
                /\ UNCHANGED <<tourI, tourJ>>
           ELSE /\ UNCHANGED <<tourNow, tourImproved, tourReversals>>
                /\ IF tourJ + 1 < n
                   THEN tourI' = tourI /\ tourJ' = tourJ + 1 /\ tourPc' = "pairs"
                   ELSE IF tourI + 3 < n
                   THEN tourI' = tourI + 1 /\ tourJ' = tourI + 3 /\ tourPc' = "pairs"
                   ELSE tourI' = tourI /\ tourJ' = tourJ /\ tourPc' = "while"
    /\ UNCHANGED <<tourSegments, tourStart, tourRemaining, tourResult, tourPoint,
                   tourSelections, tourOptimized, tourIterations,
                   polylines, startPoint, use2Opt, optPc, optResult,
                   valVars, genVars, svgVars>>

\* The while loop is left: return tour.
ReturnTour ==
    /\ tourPc = "while"
    /\ ~WhileGoesOn(tourImproved, tourIterations)
    /\ tourPc' = "done"
    /\ UNCHANGED <<tourSegments, tourStart, tourRemaining, tourResult, tourPoint,
                   tourSelections, tourOptimized, tourNow, tourImproved,
                   tourIterations, tourI, tourJ, tourReversals,
                   polylines, startPoint, use2Opt, optPc, optResult,
                   valVars, genVars, svgVars>>

NextTour == CallOptimize \/ GreedySelect \/ GreedyReturn \/ BeginPass \/ TryPair \/ ReturnTour

SpecTour == InitTour /\ [][NextTour]_vars

\* The loops run on: the call is not abandoned half way.
SpecTourFair == SpecTour /\ WF_vars(NextTour)

(***************************************************************************)
(* PathOptimizer.calculateStats                                            *)
(***************************************************************************)
\* The for loop of calculateStats from polyline k on; acc is (totalTravel,
\* drawDistance, currentPoint).
RECURSIVE DrawLen(_, _)
DrawLen(polyline, i) ==
    IF i > Len(polyline) THEN 0
    ELSE _distance(polyline[i - 1], polyline[i]) + DrawLen(polyline, i + 1)

RECURSIVE StatsLoop(_, _, _)
StatsLoop(pls, k, acc) ==
    IF k > Len(pls) THEN acc
    ELSE LET polyline == pls[k]
         IN  IF Len(polyline) < 2 THEN StatsLoop(pls, k + 1, acc)
             ELSE StatsLoop(pls, k + 1,
                     [totalTravel |-> acc.totalTravel
                                        + _distance(acc.currentPoint, polyline[1]),
                      drawDistance |-> acc.drawDistance + DrawLen(polyline, 2),
                      currentPoint |-> polyline[Len(polyline)]])

calculateStats(pls, sp) ==
    LET acc == StatsLoop(pls, 1, [totalTravel |-> 0, drawDistance |-> 0,
                                  currentPoint |-> sp])
    IN  [totalTravel |-> acc.totalTravel,
         drawDistance |-> acc.drawDistance,
         penMoves |-> Len(pls)]

(***************************************************************************)
(* JavaScript values of a settings field.                                  *)
(***************************************************************************)
Undefined == [t |-> "undefined", v |-> 0]
NumV(n) == [t |-> "num", v |-> n]

\* A destructuring default: { field = d } = settings.
OrDefault(val, d) == IF val.t = "undefined" THEN d ELSE val.v

(***************************************************************************)
(* GCodeValidator                                                          *)
(***************************************************************************)
\* /\bWORD\b/i.test(cmd), WORD made of word characters (given in capitals).
TestWord(cmd, word) ==
    \E p \in 1..(Len(cmd) - Len(word) + 1) :
        /\ ToUpperStr(SubSeq(cmd, p, p + Len(word) - 1)) = word
        /\ p = 1 \/ ~IsWordChar(cmd[p - 1])
        /\ p + Len(word) - 1 = Len(cmd) \/ ~IsWordChar(cmd[p + Len(word)])

\* [-+]?\d+ can start at q (the sign only where the pattern has one).
NumberStartsAt(cmd, q, signed) ==
    \/ q <= Len(cmd) /\ cmd[q] \in Digit
    \/ signed /\ q + 1 <= Len(cmd) /\ cmd[q] \in {"-", "+"} /\ cmd[q + 1] \in Digit

\* The group of the greedy [-+]?\d+\.?\d* starting at q.
NumberGroup(cmd, q) ==
    LET d == IF cmd[q] \in {"-", "+"} THEN q + 1 ELSE q
        e == DigitsEnd(cmd, d)
        last == IF e < Len(cmd) /\ cmd[e + 1] = "." THEN DigitsEnd(cmd, e + 2)
                ELSE e
    IN  SubSeq(cmd, q, last)

\* cmd.match(/L([-+]?\d+\.?\d*)/i) for the letter L, or /L(\d+\.?\d*)/i when
\* not signed: <<>> for null, else <<group 1>> of the leftmost match.
MatchParam(cmd, letter, signed) ==
    LET at == {p \in 1..Len(cmd) :
                  ToUpper(cmd[p]) = letter /\ NumberStartsAt(cmd, p + 1, signed)}
    IN  IF at = {} THEN <<>>
        ELSE <<NumberGroup(cmd, 1 + CHOOSE p \in at : \A r \in at : p <= r)>>

\* trimmedCommand.match(/^([GM]\d+)/i): <<>> or <<group 1, upper-cased>>.
MatchCommand(cmd) ==
    IF Len(cmd) >= 2 /\ ToUpper(cmd[1]) \in {"G", "M"} /\ cmd[2] \in Digit
    THEN <<ToUpperStr(SubSeq(cmd, 1, DigitsEnd(cmd, 2)))>>
    ELSE <<>>

knownCommandsWithoutM400 ==
    {<<"G", "0">>, <<"G", "1">>, <<"G", "2", "8">>, <<"G", "9", "0">>, <<"M", "7", "3">>,
     <<"M", "1", "0", "6">>}

knownCommands ==
    {<<"G", "0">>,
     <<"G", "1">>,
     <<"G", "2">>,
     <<"G", "3">>,
     <<"G", "4">>,
     <<"G", "2", "8">>,
     <<"G", "9", "0">>,
     <<"G", "9", "1">>,
     <<"G", "9", "2">>,
     <<"M", "0">>,
     <<"M", "1">>,
     <<"M", "7", "3">>,
     <<"M", "8", "2">>,
     <<"M", "8", "3">>,
     <<"M", "1", "0", "4">>,
     <<"M", "1", "0", "6">>,
     <<"M", "1", "0", "7">>,
     <<"M", "1", "0", "9">>,
     <<"M", "1", "4", "0">>,
     <<"M", "1", "9", "0">>,
     <<"M", "4", "0", "0">>,
     <<"M", "8", "4">>}

Finding(kind, lineNum, value) == [kind |-> kind, line |-> lineNum, value |-> value]

\* A slip at the edge of the bed: x >= bedWidth taken as outside.
CheckXEdgeOutside(m, lineNum, bedWidth) ==
    IF m = <<>> THEN <<>>
    ELSE LET x == parseFloat(m[1])
         IN  IF x < 0 THEN <<Finding("x_negative", lineNum, x)>>
             ELSE IF x >= bedWidth THEN <<Finding("x_exceeds_bed", lineNum, x)>>
             ELSE <<>>

\* if (x < 0) errors.push(...) else if (x > bedWidth) errors.push(...)
CheckX(m, lineNum, bedWidth) ==
    IF m = <<>> THEN <<>>
    ELSE LET x == parseFloat(m[1])
         IN  IF x < 0 THEN <<Finding("x_negative", lineNum, x)>>
             ELSE IF x > bedWidth THEN <<Finding("x_exceeds_bed", lineNum, x)>>
             ELSE <<>>

CheckY(m, lineNum, bedHeight) ==
    IF m = <<>> THEN <<>>
    ELSE LET y == parseFloat(m[1])
         IN  IF y < 0 THEN <<Finding("y_negative", lineNum, y)>>
             ELSE IF y > bedHeight THEN <<Finding("y_exceeds_bed", lineNum, y)>>
             ELSE <<>>

\* Z: an error when negative, a warning when above maxZ.
CheckZErrors(m, lineNum) ==
    IF m = <<>> THEN <<>>
    ELSE LET z == parseFloat(m[1])
         IN  IF z < 0 THEN <<Finding("z_negative", lineNum, z)>> ELSE <<>>

CheckZWarnings(m, lineNum, maxZ) ==
    IF m = <<>> THEN <<>>
    ELSE LET z == parseFloat(m[1])
         IN  IF z >= 0 /\ z > maxZ THEN <<Finding("z_high", lineNum, z)>>
             ELSE <<>>

\* F: an error when <= 0, a warning when above maxFeedRate or below 100.
CheckFErrors(m, lineNum) ==
    IF m = <<>> THEN <<>>
    ELSE LET f == parseFloat(m[1])
         IN  IF f <= 0 THEN <<Finding("f_not_positive", lineNum, f)>> ELSE <<>>

CheckFWarnings(m, lineNum, maxFeedRate) ==
    IF m = <<>> THEN <<>>
    ELSE LET f == parseFloat(m[1])
         IN  IF f <= 0 THEN <<>>
             ELSE IF f > maxFeedRate THEN <<Finding("f_high", lineNum, f)>>
             ELSE IF f < Num(100) THEN <<Finding("f_low", lineNum, f)>>
             ELSE <<>>

\* The unknown-command check at the end of the loop body.
CheckCommand(cmd, lineNum) ==
    LET m == MatchCommand(cmd)
    IN  IF m # <<>> /\ m[1] \notin knownCommands
        THEN <<Finding("uncommon_command", lineNum, 0)>> ELSE <<>>

\* The loop's variables before the first line.
ValStart ==
    [errors |-> <<>>, warnings |-> <<>>, hasG28 |-> FALSE, hasG90 |-> FALSE,
     inAbsoluteMode |-> "null", currentX |-> 0, currentY |-> 0, currentZ |-> 0]

\* One iteration of the loop over the lines: st is the loop's variables,
\* raw is lines[i] and lineNum is i + 1.
ValidateLine(st, raw, lineNum, cfg) ==
    LET line == Trim(raw)
    IN  IF StartsWith(line, <<";">>) \/ line = <<>> THEN st
        ELSE
        LET trimmedCommand == Trim(Split(line, ";")[1])
            isG90 == TestWord(trimmedCommand, <<"G", "9", "0">>)
            isG91 == TestWord(trimmedCommand, <<"G", "9", "1">>)
            inAbsoluteMode == IF isG91 THEN "false"
                              ELSE IF isG90 THEN "true" ELSE st.inAbsoluteMode
            isMove == TestWord(trimmedCommand, <<"G", "0">>)
                          \/ TestWord(trimmedCommand, <<"G", "1">>)
            xMatch == MatchParam(trimmedCommand, "X", TRUE)
            yMatch == MatchParam(trimmedCommand, "Y", TRUE)
            zMatch == MatchParam(trimmedCommand, "Z", TRUE)
            fMatch == MatchParam(trimmedCommand, "F", FALSE)
            track == isMove /\ inAbsoluteMode # "false"
        IN  [errors |->
                st.errors
                \o (IF isMove
                    THEN CheckX(xMatch, lineNum, cfg.bedWidth)
                         \o CheckY(yMatch, lineNum, cfg.bedHeight)
                         \o CheckZErrors(zMatch, lineNum)
                         \o CheckFErrors(fMatch, lineNum)
                    ELSE <<>>),
             warnings |->
                st.warnings
                \o (IF isMove
                    THEN CheckZWarnings(zMatch, lineNum, cfg.maxZ)
                         \o CheckFWarnings(fMatch, lineNum, cfg.maxFeedRate)
                    ELSE <<>>)
                \o CheckCommand(trimmedCommand, lineNum),
             hasG28 |-> st.hasG28 \/ TestWord(trimmedCommand, <<"G", "2", "8">>),
             hasG90 |-> st.hasG90 \/ isG90,
             inAbsoluteMode |-> inAbsoluteMode,
             currentX |-> IF track /\ xMatch # <<>> THEN parseFloat(xMatch[1])
                          ELSE st.currentX,
             currentY |-> IF track /\ yMatch # <<>> THEN parseFloat(yMatch[1])
                          ELSE st.currentY,
             currentZ |-> IF track /\ zMatch # <<>> THEN parseFloat(zMatch[1])
                          ELSE st.currentZ]

\* The for loop over the lines, from line i on; st is the state the lines
\* before have left, its flags being Booleans throughout.
RECURSIVE ValidateLines(_, _, _, _)
ValidateLines(st, lines, i, cfg) ==
    IF i > Len(lines) \/ st.hasG28 \notin BOOLEAN THEN st
    ELSE ValidateLines(ValidateLine(st, lines[i], i, cfg), lines, i + 1, cfg)

\* The global checks after the loop.
MissingSetup(st) ==
    (IF ~st.hasG28 THEN <<Finding("missing_g28", 0, 0)>> ELSE <<>>)
    \o (IF ~st.hasG90 THEN <<Finding("missing_g90", 0, 0)>> ELSE <<>>)

\* A stricter verdict: warnings count against the document too.
IsValidNoWarnings(errors, warnings) == Len(errors) = 0 /\ Len(warnings) = 0

\* valid: errors.length === 0
IsValid(errors, warnings) == Len(errors) = 0

\* The summary text, by its parts: the two counts it prints, or "passed".
_generateSummary(errors, warnings) ==
    IF Len(errors) = 0 /\ Len(warnings) = 0
    THEN [passed |-> TRUE, parts |-> <<>>]
    ELSE [passed |-> FALSE,
          parts |-> (IF Len(errors) > 0 THEN <<<<Len(errors), "error(s) found">>>>
                     ELSE <<>>)
                    \o (IF Len(warnings) > 0
                        THEN <<<<Len(warnings), "warning(s)">>>> ELSE <<>>)]

validate(gcode, settings) ==
    LET cfg == [bedWidth |-> OrDefault(settings.bedWidth, Num(256)),
                bedHeight |-> OrDefault(settings.bedHeight, Num(256)),
                maxZ |-> OrDefault(settings.maxZ, Num(300)),
                maxFeedRate |-> OrDefault(settings.maxFeedRate, Num(15000))]
        st == ValidateLines(ValStart, Split(gcode, "\n"), 1, cfg)
        errors == st.errors
        warnings == st.warnings \o MissingSetup(st)
    IN  [valid |-> IsValid(errors, warnings),
         errors |-> errors,
         warnings |-> warnings,
         summary |-> _generateSummary(errors, warnings)]

(***************************************************************************)
(* The documents validate is applied to.  A document is written as a list  *)
(* of lines, each with what it is meant to say: an indentation, a command  *)
(* word, parameters (letter and value) and an optional comment.  The text  *)
(* handed to validate is the rendering of these lines; what the lines mean *)
(* is kept in valDoc for the properties to compare the findings with.      *)
(***************************************************************************)
\* Bound: the number of lines of a document.
MaxLines == 2

Param(letter, v, style) == [letter |-> letter, v |-> v, style |-> style]

\* comment is <<>> (none) or <<text>>.
GLine(indent, cmd, params, comment) ==
    [indent |-> indent, cmd |-> cmd, params |-> params, comment |-> comment]

\* A parameter value as text: three decimals, or the shortest decimal.
RenderValue(v, style) ==
    IF style = "fixed3" THEN toFixed3(v)
    ELSE IF style = "plus" THEN <<"+">> \o toFixed3(v)
    ELSE NumberToString(v)

RECURSIVE RenderParams(_)
RenderParams(params) ==
    IF Len(params) = 0 THEN <<>>
    ELSE <<" ", params[1].letter>> \o RenderValue(params[1].v, params[1].style)
         \o RenderParams(Tail(params))

RenderLine(l) ==
    l.indent \o l.cmd \o RenderParams(l.params)
    \o (IF l.comment = <<>> THEN <<>>
        ELSE (IF l.cmd = <<>> THEN <<>> ELSE <<" ">>) \o <<";">> \o l.comment[1])

RenderDoc(doc) == Join([i \in 1..Len(doc) |-> RenderLine(doc[i])], "\n")

\* Thousandths of a millimetre, as ten-thousandths.
Milli(n) == n * (Den \div 1000)

\* Axis values around the limits of the two beds below (256 x 256 and
\* 100 x 50): just outside, on, and inside.
XValues == {Milli(-1), 0, Milli(100000), Milli(100001), Milli(256000),
            Milli(256001)}
YValues == {Milli(-1), 0, Milli(50000), Milli(50001), Milli(256000),
            Milli(256001)}
ZValues == {Milli(-1), 0, Milli(150), Milli(10001), Milli(300001)}
\* Feed rates: negative, zero, low, on the low threshold, on each of the two
\* limits below (5000 and 15000), above both.
FValues == {Num(-100), 0, Num(50), Num(100), Num(5000), Num(15000), Num(15001)}

MoveLines ==
    {GLine(<<>>, <<"G", "1">>, <<Param("X", x, "fixed3"), Param("Y", Milli(10000), "fixed3")>>,
           <<>>) : x \in XValues}
    \cup {GLine(<<>>, <<"G", "0">>, <<Param("X", Milli(10000), "fixed3"), Param("Y", y, "fixed3")>>,
                <<>>) : y \in YValues}
    \cup {GLine(<<>>, <<"G", "0">>, <<Param("Z", z, "fixed3"), Param("F", Num(9000), "plain")>>,
                <<<<" ", "P", "e", "n", " ", "d", "o", "w", "n", " ", "(", "o", "f", "f", "s", "e", "t", " ", "a", "d", "j", "u", "s", "t", "e", "d", ")">>>>) : z \in ZValues}
    \cup {GLine(<<>>, <<"G", "1">>, <<Param("X", Milli(1000), "fixed3"), Param("F", f, "plain")>>,
                <<>>) : f \in FValues}
    \cup {\* every axis out of range at once, values without decimals
          GLine(<<>>, <<"G", "1">>, <<Param("X", Num(300), "plain"), Param("Y", Num(-5), "plain"),
                              Param("Z", Num(-1), "plain")>>, <<>>),
          \* lower case, indented, explicit plus sign
          GLine(<<" ", " ">>, <<"g", "1">>, <<Param("x", Num(300), "plus"),
                                     Param("y", Num(10), "plus")>>, <<>>),
          \* in range, the comment full of out-of-range text
          GLine(<<>>, <<"G", "1">>, <<Param("X", Milli(1000), "fixed3")>>,
                <<<<" ", "X", "-", "5", " ", "Y", "9", "9", "9", " ", "Z", "-", "1", " ", "F", "0", " ", "G", "2", "8", " ", "G", "9", "0">>>>)}

OtherLines ==
    {GLine(<<>>, <<"G", "2", "8">>, <<>>, <<<<" ", "h", "o", "m", "e", " ", "a", "l", "l", " ", "a", "x", "e", "s">>>>),
     GLine(<<"\t">>, <<"g", "2", "8">>, <<>>, <<>>),
     GLine(<<>>, <<"G", "9", "0">>, <<>>, <<<<" ", "a", "b", "s", "o", "l", "u", "t", "e", " ", "c", "o", "o", "r", "d", "s">>>>),
     GLine(<<>>, <<"G", "9", "1">>, <<>>, <<>>),
     \* a full-comment line naming commands and parameters
     GLine(<<>>, <<>>, <<>>, <<<<" ", "G", "2", "8", " ", "G", "9", "0", " ", "G", "1", " ", "X", "-", "5", " ", "F", "0", " ", "M", "9", "9", "9">>>>),
     \* blank lines
     GLine(<<>>, <<>>, <<>>, <<>>),
     GLine(<<" ", "\t">>, <<>>, <<>>, <<>>),
     \* not a move, not a home: other commands with parameters
     GLine(<<>>, <<"M", "7", "3">>, <<Param("P", Num(50), "plain"), Param("R", 0, "plain")>>,
           <<<<" ", "P", "r", "o", "g", "r", "e", "s", "s", ":", " ", "5", "0", "%">>>>),
     GLine(<<>>, <<"G", "2", "8", "0">>, <<Param("X", Num(-1), "plain")>>, <<>>),
     GLine(<<>>, <<"M", "9", "9", "9">>, <<>>, <<>>)}

ValLines == MoveLines \cup OtherLines

\* Settings: nothing given (the defaults apply), or a small machine.
ValSettingsSet ==
    {[bedWidth |-> Undefined, bedHeight |-> Undefined, maxZ |-> Undefined,
      maxFeedRate |-> Undefined],
     [bedWidth |-> NumV(Num(100)), bedHeight |-> NumV(Num(50)),
      maxZ |-> NumV(Num(10)), maxFeedRate |-> NumV(Num(5000))]}

NoValResult == [valid |-> TRUE, errors |-> <<>>, warnings |-> <<>>,
                summary |-> [passed |-> TRUE, parts |-> <<>>]]

InitVal ==
    /\ OptIdle
    /\ GenIdle
    /\ SvgIdle
    /\ valDoc \in SeqsOf(ValLines, 1, MaxLines)
    /\ valGcode = RenderDoc(valDoc)
    /\ valSettings \in ValSettingsSet
    /\ valPc = "call"
    /\ valResult = NoValResult

Validate ==
    /\ valPc = "call"
    /\ valResult' = validate(valGcode, valSettings)
    /\ valPc' = "done"
    /\ UNCHANGED <<valDoc, valGcode, valSettings, optVars, genVars, svgVars>>

NextVal == Validate

SpecVal == InitVal /\ [][NextVal]_vars

(***************************************************************************)
(* GCodeGenerator                                                          *)
(***************************************************************************)

\* Further JavaScript values a settings field or a list item can hold.
Null == [t |-> "null", v |-> 0]
NaN == [t |-> "nan", v |-> 0]
PosInfinity == [t |-> "infinity", v |-> 1]
NegInfinity == [t |-> "infinity", v |-> -1]
Str(chars) == [t |-> "string", v |-> chars]
Arr(items) == [t |-> "array", v |-> items]

\* Number.isFinite: a number that is neither NaN nor infinite.
NumberIsFinite(val) == val.t = "num"

\* Array.isArray
ArrayIsArray(val) == val.t = "array"

\* A destructuring default, the value kept as a JavaScript value.
Destructured(val, d) == IF val.t = "undefined" THEN d ELSE val

DEFAULT_PEN_UP_Z == Milli(600)
DEFAULT_SHEET_HEIGHT == Milli(150)
DEFAULT_BED_SIZE == Num(256)
DEFAULT_FEED_RATE == Num(3000)
DEFAULT_TRAVEL_FEED_RATE == Num(9000)
DEFAULT_PEN_OFFSET == Arr(<<NumV(0), NumV(0), NumV(0)>>)

\* The lines _getDefaultHeaderTemplate joins.
DefaultHeaderLines ==
    <<
      \* ; ========== PlotLab - generated G-code  ==========
      <<";", " ", "=", "=", "=", "=", "=", "=", "=", "=", "=", "=",
        " ", "P", "l", "o", "t", "L", "a", "b", " ", "-", " ", "g",
        "e", "n", "e", "r", "a", "t", "e", "d", " ", "G", "-", "c",
        "o", "d", "e", " ", " ", "=", "=", "=", "=", "=", "=", "=",
        "=", "=", "=">>,
      \* (empty)
      <<>>,
      \* ; ========== machine: P1S ==========
      <<";", " ", "=", "=", "=", "=", "=", "=", "=", "=", "=", "=",
        " ", "m", "a", "c", "h", "i", "n", "e", ":", " ", "P", "1",
        "S", " ", "=", "=", "=", "=", "=", "=", "=", "=", "=", "=">>,
      \* (empty)
      <<>>,
      \* ; ========== startup sequence ==========
      <<";", " ", "=", "=", "=", "=", "=", "=", "=", "=", "=", "=",
        " ", "s", "t", "a", "r", "t", "u", "p", " ", "s", "e", "q",
        "u", "e", "n", "c", "e", " ", "=", "=", "=", "=", "=", "=",
        "=", "=", "=", "=">>,
      \* ; heating: off
      <<";", " ", "h", "e", "a", "t", "i", "n", "g", ":", " ", "o",
        "f", "f">>,
      \* M106 P1 S0 ; turn off part fan
      <<"M", "1", "0", "6", " ", "P", "1", " ", "S", "0", " ", ";",
        " ", "t", "u", "r", "n", " ", "o", "f", "f", " ", "p", "a",
        "r", "t", " ", "f", "a", "n">>,
      \* M106 P2 S0 ; turn off AUX fan
      <<"M", "1", "0", "6", " ", "P", "2", " ", "S", "0", " ", ";",
        " ", "t", "u", "r", "n", " ", "o", "f", "f", " ", "A", "U",
        "X", " ", "f", "a", "n">>,
      \* M106 P3 S0 ; turn off Chamber fan
      <<"M", "1", "0", "6", " ", "P", "3", " ", "S", "0", " ", ";",
        " ", "t", "u", "r", "n", " ", "o", "f", "f", " ", "C", "h",
        "a", "m", "b", "e", "r", " ", "f", "a", "n">>,
      \* (empty)
      <<>>,
      \* G28 ; home all axes
      <<"G", "2", "8", " ", ";", " ", "h", "o", "m", "e", " ", "a",
        "l", "l", " ", "a", "x", "e", "s">>,
      \* (empty)
      <<>>,
      \* ; ========== MANUAL STEP NEEDED NOW ==========
      <<";", " ", "=", "=", "=", "=", "=", "=", "=", "=", "=", "=",
        " ", "M", "A", "N", "U", "A", "L", " ", "S", "T", "E", "P",
        " ", "N", "E", "E", "D", "E", "D", " ", "N", "O", "W", " ",
        "=", "=", "=", "=", "=", "=", "=", "=", "=", "=">>,
      \* (empty)
      <<>>,
      \* M106 P1 S255 ; turn on part fan
      <<"M", "1", "0", "6", " ", "P", "1", " ", "S", "2", "5", "5",
        " ", ";", " ", "t", "u", "r", "n", " ", "o", "n", " ", "p",
        "a", "r", "t", " ", "f", "a", "n">>,
      \* M400 U1 ; wait for user interaction
      <<"M", "4", "0", "0", " ", "U", "1", " ", ";", " ", "w", "a",
        "i", "t", " ", "f", "o", "r", " ", "u", "s", "e", "r", " ",
        "i", "n", "t", "e", "r", "a", "c", "t", "i", "o", "n">>,
      \* M106 P1 S0 ; turn off part fan
      <<"M", "1", "0", "6", " ", "P", "1", " ", "S", "0", " ", ";",
        " ", "t", "u", "r", "n", " ", "o", "f", "f", " ", "p", "a",
        "r", "t", " ", "f", "a", "n">>,
      \* (empty)
      <<>>,
      \* ; ATTACH THE PEN ADAPTER NOW AND PRESS CONTINUE
      <<";", " ", "A", "T", "T", "A", "C", "H", " ", "T", "H", "E",
        " ", "P", "E", "N", " ", "A", "D", "A", "P", "T", "E", "R",
        " ", "N", "O", "W", " ", "A", "N", "D", " ", "P", "R", "E",
        "S", "S", " ", "C", "O", "N", "T", "I", "N", "U", "E">>,
      \* (empty)
      <<>>,
      \* ; ========== MANUAL STEP NEEDED NOW ==========
      <<";", " ", "=", "=", "=", "=", "=", "=", "=", "=", "=", "=",
        " ", "M", "A", "N", "U", "A", "L", " ", "S", "T", "E", "P",
        " ", "N", "E", "E", "D", "E", "D", " ", "N", "O", "W", " ",
        "=", "=", "=", "=", "=", "=", "=", "=", "=", "=">>,
      \* ; coordinates settings
      <<";", " ", "c", "o", "o", "r", "d", "i", "n", "a", "t", "e",
        "s", " ", "s", "e", "t", "t", "i", "n", "g", "s">>,
      \* G90 ; absolute coords
      <<"G", "9", "0", " ", ";", " ", "a", "b", "s", "o", "l", "u",
        "t", "e", " ", "c", "o", "o", "r", "d", "s">>,
      \* (empty)
      <<>>,
      \* ; progress bar
      <<";", " ", "p", "r", "o", "g", "r", "e", "s", "s", " ", "b",
        "a", "r">>,
      \* M73 P0 R0 ; clear progress bar
      <<"M", "7", "3", " ", "P", "0", " ", "R", "0", " ", ";", " ",
        "c", "l", "e", "a", "r", " ", "p", "r", "o", "g", "r", "e",
        "s", "s", " ", "b", "a", "r">>,
      \* (empty)
      <<>>,
      \* G0 Z{nozzleUpZ} F{travelFeedRate} ; pen up (safe height, nozzle adjusted for pen offset)
      <<"G", "0", " ", "Z", "{", "n", "o", "z", "z", "l", "e", "U",
        "p", "Z", "}", " ", "F", "{", "t", "r", "a", "v", "e", "l",
        "F", "e", "e", "d", "R", "a", "t", "e", "}", " ", ";", " ",
        "p", "e", "n", " ", "u", "p", " ", "(", "s", "a", "f", "e",
        " ", "h", "e", "i", "g", "h", "t", ",", " ", "n", "o", "z",
        "z", "l", "e", " ", "a", "d", "j", "u", "s", "t", "e", "d",
        " ", "f", "o", "r", " ", "p", "e", "n", " ", "o", "f", "f",
        "s", "e", "t", ")">>
    >>

\* The lines _getDefaultFooterTemplate joins.
DefaultFooterLines ==
    <<
      \* ; ========== end sequence ==========
      <<";", " ", "=", "=", "=", "=", "=", "=", "=", "=", "=", "=",
        " ", "e", "n", "d", " ", "s", "e", "q", "u", "e", "n", "c",
        "e", " ", "=", "=", "=", "=", "=", "=", "=", "=", "=", "=">>,
      \* ; progress complete
      <<";", " ", "p", "r", "o", "g", "r", "e", "s", "s", " ", "c",
        "o", "m", "p", "l", "e", "t", "e">>,
      \* M73 P100 R0 ; set progress bar to 100%
      <<"M", "7", "3", " ", "P", "1", "0", "0", " ", "R", "0", " ",
        ";", " ", "s", "e", "t", " ", "p", "r", "o", "g", "r", "e",
        "s", "s", " ", "b", "a", "r", " ", "t", "o", " ", "1", "0",
        "0", "%">>,
      \* (empty)
      <<>>,
      \* ; Go to up left corner and end
      <<";", " ", "G", "o", " ", "t", "o", " ", "u", "p", " ", "l",
        "e", "f", "t", " ", "c", "o", "r", "n", "e", "r", " ", "a",
        "n", "d", " ", "e", "n", "d">>,
      \* G0 X0 Y{bedHeight} Z100
      <<"G", "0", " ", "X", "0", " ", "Y", "{", "b", "e", "d", "H",
        "e", "i", "g", "h", "t", "}", " ", "Z", "1", "0", "0">>,
      \* ; FINISHED
      <<";", " ", "F", "I", "N", "I", "S", "H", "E", "D">>
    >>

\* _getDefaultHeaderTemplate
DefaultHeaderTemplate == Join(DefaultHeaderLines, "\n")

\* _getDefaultFooterTemplate
DefaultFooterTemplate == Join(DefaultFooterLines, "\n")

\* Number.isFinite(value) ? value : 0, whatever the field.
SafeNumberOrZero(val, fallback) == IF NumberIsFinite(val) THEN val.v ELSE 0

\* Number.isFinite(value) ? value : fallback
SafeNumber(val, fallback) == IF NumberIsFinite(val) THEN val.v ELSE fallback

\* safePenOffset
SafePenOffset(penOffset) ==
    IF ArrayIsArray(penOffset) /\ Len(penOffset.v) = 3
    THEN [i \in 1..3 |-> SafeNumber(penOffset.v[i], 0)]
    ELSE <<0, 0, 0>>

\* nozzleUpZ, with the offset left out.
NozzleUpZNoOffset(safePenUpZ, offsetZ) == safePenUpZ

\* nozzleUpZ
NozzleUpZ(safePenUpZ, offsetZ) == safePenUpZ - offsetZ

\* nozzleDownZ
NozzleDownZ(safeSheetHeight, offsetZ) == safeSheetHeight - offsetZ

\* The constants generate derives from the settings before it emits a line.
SafeSettings(settings) ==
    LET penUpZ == Destructured(settings.penUpZ, NumV(DEFAULT_PEN_UP_Z))
        sheetHeight == Destructured(settings.sheetHeight, NumV(DEFAULT_SHEET_HEIGHT))
        feedRate == Destructured(settings.feedRate, NumV(DEFAULT_FEED_RATE))
        travelFeedRate == Destructured(settings.travelFeedRate,
                                       NumV(DEFAULT_TRAVEL_FEED_RATE))
        bedWidth == Destructured(settings.bedWidth, NumV(DEFAULT_BED_SIZE))
        bedHeight == Destructured(settings.bedHeight, NumV(DEFAULT_BED_SIZE))
        penOffset == Destructured(settings.penOffset, DEFAULT_PEN_OFFSET)
        safePenUpZ == SafeNumber(penUpZ, DEFAULT_PEN_UP_Z)
        safeSheetHeight == SafeNumber(sheetHeight, DEFAULT_SHEET_HEIGHT)
        safePenOffset == SafePenOffset(penOffset)
    IN  [safePenUpZ |-> safePenUpZ,
         safeSheetHeight |-> safeSheetHeight,
         safeFeedRate |-> SafeNumber(feedRate, DEFAULT_FEED_RATE),
         safeTravelFeedRate |-> SafeNumber(travelFeedRate, DEFAULT_TRAVEL_FEED_RATE),
         safeBedWidth |-> SafeNumber(bedWidth, DEFAULT_BED_SIZE),
         safeBedHeight |-> SafeNumber(bedHeight, DEFAULT_BED_SIZE),
         offsetX |-> safePenOffset[1],
         offsetY |-> safePenOffset[2],
         offsetZ |-> safePenOffset[3],
         nozzleUpZ |-> NozzleUpZ(safePenUpZ, safePenOffset[3]),
         nozzleDownZ |-> NozzleDownZ(safeSheetHeight, safePenOffset[3])]

\* The context object: a list of <<key, value>> in the order of the literal.
Context(s, now) ==
    <<  <<<<"p", "e", "n", "U", "p", "Z">>, toFixed3(s.safePenUpZ)>>,
        <<<<"n", "o", "z", "z", "l", "e", "U", "p", "Z">>, toFixed3(s.nozzleUpZ)>>,
        <<<<"s", "h", "e", "e", "t", "H", "e", "i", "g", "h", "t">>, toFixed3(s.safeSheetHeight)>>,
        <<<<"f", "e", "e", "d", "R", "a", "t", "e">>, NumberToString(MathRound(s.safeFeedRate))>>,
        <<<<"t", "r", "a", "v", "e", "l", "F", "e", "e", "d", "R", "a",
            "t", "e">>,
          NumberToString(MathRound(s.safeTravelFeedRate))>>,
        <<<<"o", "f", "f", "s", "e", "t", "X">>, toFixed3(s.offsetX)>>,
        <<<<"o", "f", "f", "s", "e", "t", "Y">>, toFixed3(s.offsetY)>>,
        <<<<"o", "f", "f", "s", "e", "t", "Z">>, toFixed3(s.offsetZ)>>,
        <<<<"b", "e", "d", "W", "i", "d", "t", "h">>, toFixed3(s.safeBedWidth)>>,
        <<<<"b", "e", "d", "H", "e", "i", "g", "h", "t">>, toFixed3(s.safeBedHeight)>>,
        <<<<"t", "i", "m", "e", "s", "t", "a", "m", "p">>, now>>  >>

\* Object.prototype.hasOwnProperty.call(context, key)
HasOwnProperty(context, key) == \E i \in 1..Len(context) : context[i][1] = key

\* context[key]
Lookup(context, key) ==
    context[CHOOSE i \in 1..Len(context) : context[i][1] = key][2]

\* The end of the longest run of \w that starts at position q (q - 1 if
\* there is none).
WordEnd(s, q) ==
    CHOOSE e \in (q - 1)..Len(s) :
        /\ \A k \in q..e : IsWordChar(s[k])
        /\ e = Len(s) \/ ~IsWordChar(s[e + 1])

\* /\{(\w+)\}/ matches at position i: a brace, one or more \w, a brace.
TokenAt(template, i) ==
    /\ template[i] = "{"
    /\ LET e == WordEnd(template, i + 1)
       IN  e >= i + 1 /\ e < Len(template) /\ template[e + 1] = "}"

\* The replacement callback, unknown keys dropped.
ReplacementOrNothing(context, key, match) ==
    IF HasOwnProperty(context, key) THEN Lookup(context, key) ELSE <<>>

\* The replacement callback of _expandTemplate.
Replacement(context, key, match) ==
    IF HasOwnProperty(context, key) THEN Lookup(context, key) ELSE match

\* String.prototype.replace with the /g flag: the matches from left to
\* right, the search going on behind each match in the template itself.
RECURSIVE ReplaceFrom(_, _, _)
ReplaceFrom(template, context, pos) ==
    LET ahead == {i \in pos..Len(template) : TokenAt(template, i)}
    IN  IF ahead = {} THEN SubSeq(template, pos, Len(template))
        ELSE LET i == CHOOSE a \in ahead : \A b \in ahead : a <= b
                 e == WordEnd(template, i + 1)
             IN  SubSeq(template, pos, i - 1)
                 \o Replacement(context, SubSeq(template, i + 1, e),
                                SubSeq(template, i, e + 1))
                 \o ReplaceFrom(template, context, e + 2)

_expandTemplate(template, context) == ReplaceFrom(template, context, 1)

\* headerTemplate?.trim().length ? headerTemplate : the default
TemplateOrDefault(template, default) ==
    LET given == Destructured(template, Str(<<>>))
    IN  IF given.t = "string" /\ Len(Trim(given.v)) > 0 THEN given.v ELSE default

\* !polyline || polyline.length < 2 is false, a single point being enough.
IsDrawnFromOnePoint(polyline) == polyline.t = "array" /\ Len(polyline.v) >= 1

\* The polylines generate draws: pl && pl.length >= 2.
IsDrawn(polyline) == polyline.t = "array" /\ Len(polyline.v) >= 2

\* polylines.filter(pl => pl && pl.length >= 2).length
TotalPolylines(pls) == Cardinality({i \in 1..Len(pls) : IsDrawn(pls[i])})

\* Math.floor((completed / total) * 100)
ProgressFloor(completed, total) == (100 * completed) \div total

\* Math.round((completed / total) * 100), in exact arithmetic.
Progress(completed, total) == (200 * completed + total) \div (2 * total)

\* The G1 lines of one polyline: the for loop from point i on.
RECURSIVE DrawLines(_, _, _)
DrawLines(points, i, s) ==
    IF i > Len(points) THEN <<>>
    ELSE <<<<"G", "1", " ", "X">> \o toFixed3(points[i][1] - s.offsetX)
           \o <<" ", "Y">> \o toFixed3(points[i][2] - s.offsetY)
           \o <<" ", "F">> \o NumberToString(s.safeFeedRate)>>
         \o DrawLines(points, i + 1, s)

\* The lines one drawn polyline pushes; completed is completedPolylines
\* after its increment.
PolylineLines(points, idx, completed, total, s) ==
    LET progress == NatToString(Progress(completed, total))
    IN  <<<<";", " ", "P", "o", "l", "y", "l", "i", "n", "e", " ">>
          \o NatToString(idx),
          <<"G", "0", " ", "X">> \o toFixed3(points[1][1] - s.offsetX)
          \o <<" ", "Y">> \o toFixed3(points[1][2] - s.offsetY)
          \o <<" ", "Z">> \o toFixed3(s.nozzleUpZ)
          \o <<" ", "F">> \o NumberToString(s.safeTravelFeedRate),
          <<"G", "0", " ", "Z">> \o toFixed3(s.nozzleDownZ)
          \o <<" ", "F">> \o NumberToString(s.safeTravelFeedRate)
          \o <<" ", ";", " ", "P", "e", "n", " ", "d", "o", "w", "n", " ",
            "(", "o", "f", "f", "s", "e", "t", " ", "a", "d", "j", "u",
            "s", "t", "e", "d", ")">>>>
        \o DrawLines(points, 2, s)
        \o <<<<"G", "0", " ", "Z">> \o toFixed3(s.nozzleUpZ)
             \o <<" ", "F">> \o NumberToString(s.safeTravelFeedRate)
             \o <<" ", ";", " ", "P", "e", "n", " ", "u", "p", " ", "(", "o",
            "f", "f", "s", "e", "t", " ", "a", "d", "j", "u", "s", "t",
            "e", "d", ")">>,
             <<"M", "7", "3", " ", "P">> \o progress \o <<" ", "R", "0", " ", ";", " ", "P", "r", "o", "g", "r", "e",
            "s", "s", ":", " ">>
             \o progress \o <<"%">>,
             <<>> >>

\* polylines.forEach from index idx (1-based) on.
RECURSIVE BodyLoop(_, _, _, _, _)
BodyLoop(pls, idx, completed, total, s) ==
    IF idx > Len(pls) THEN <<>>
    ELSE IF ~IsDrawn(pls[idx]) THEN BodyLoop(pls, idx + 1, completed, total, s)
    ELSE PolylineLines(pls[idx].v, idx, completed + 1, total, s)
         \o BodyLoop(pls, idx + 1, completed + 1, total, s)

\* The three runs of lines generate pushes to its gcode array.
GcodeParts(pls, settings, now) ==
    LET s == SafeSettings(settings)
        context == Context(s, now)
        headerText == TemplateOrDefault(settings.headerTemplate, DefaultHeaderTemplate)
        footerText == TemplateOrDefault(settings.footerTemplate, DefaultFooterTemplate)
    IN  [header |-> Split(_expandTemplate(headerText, context), "\n"),
         body |-> BodyLoop(pls, 1, 0, TotalPolylines(pls), s),
         footer |-> Split(_expandTemplate(footerText, context), "\n")]

generate(pls, settings, now) ==
    LET parts == GcodeParts(pls, settings, now)
    IN  Join(parts.header \o << <<>> >> \o parts.body
             \o parts.footer \o << <<>> >>, "\n")

(***************************************************************************)
(* The calls of the generator.  The settings vary one aspect at a time     *)
(* around a record of finite values: the polylines and the pen offset, the *)
(* number of drawn polylines, the fields that are not finite numbers, the  *)
(* feed rates, the templates.                                              *)
(***************************************************************************)

MaxGenPolylines == 3
MaxProgress == 8
MaxPieces == 3

\* Points, in ten-thousandths of a millimetre.
PointA == <<Num(10), Num(20)>>
PointB == <<123456, Milli(-3500)>>
PointC == <<0, 4>>

NullPolyline == Null
DotPolyline == Arr(<<PointA>>)
SegPolyline == Arr(<<PointA, PointB>>)
TriPolyline == Arr(<<PointB, PointC, PointA>>)

GenPolylineKinds ==
    {NullPolyline, Arr(<<>>), DotPolyline, SegPolyline, TriPolyline}

\* A header that shows every context value and a footer with an unknown token.
TokenHeader ==
    <<";", " ", "{", "p", "e", "n", "U", "p", "Z", "}", " ", "{",
            "n", "o", "z", "z", "l", "e", "U", "p", "Z", "}", " ", "{",
            "s", "h", "e", "e", "t", "H", "e", "i", "g", "h", "t", "}",
            " ", "{", "f", "e", "e", "d", "R", "a", "t", "e", "}", " ",
            "{", "t", "r", "a", "v", "e", "l", "F", "e", "e", "d", "R",
            "a", "t", "e", "}">>
    \o <<" ", "{", "o", "f", "f", "s", "e", "t", "X", "}", " ", "{",
            "o", "f", "f", "s", "e", "t", "Y", "}", " ", "{", "o", "f",
            "f", "s", "e", "t", "Z", "}", " ", "{", "b", "e", "d", "W",
            "i", "d", "t", "h", "}", " ", "{", "b", "e", "d", "H", "e",
            "i", "g", "h", "t", "}", " ", "{", "t", "i", "m", "e", "s",
            "t", "a", "m", "p", "}">>

ShortFooter ==
    <<"G", "0", " ", "X", "0", " ", "Y", "{", "b", "e", "d", "H",
            "e", "i", "g", "h", "t", "}", " ", "Z", "1", "0", "0", " ",
            "F", "{", "t", "r", "a", "v", "e", "l", "F", "e", "e", "d",
            "R", "a", "t", "e", "}", "\n", ";", " ", "{", "b", "o", "g",
            "u", "s", "}", " ", "{", "n", "o", "z", "z", "l", "e", "D",
            "o", "w", "n", "Z", "}">>

Timestamp ==
    <<"2", "0", "2", "6", "-", "0", "2", "-", "1", "1", "T", "0",
            "9", ":", "3", "0", ":", "0", "0", ".", "0", "0", "0", "Z">>

BasePenOffset == Arr(<<NumV(Milli(1500)), NumV(Milli(-2250)), NumV(Milli(50))>>)

BaseSettings ==
    [bedWidth |-> NumV(Num(200)), bedHeight |-> NumV(Num(150)),
     penUpZ |-> NumV(Milli(1250)), sheetHeight |-> NumV(Milli(200)),
     penOffset |-> BasePenOffset,
     feedRate |-> NumV(Num(1500)), travelFeedRate |-> NumV(Num(6000)),
     headerTemplate |-> Str(TokenHeader), footerTemplate |-> Str(ShortFooter)]

PenOffsets ==
    {DEFAULT_PEN_OFFSET, BasePenOffset,
     Arr(<<NumV(-3), NumV(Num(7)), NumV(Milli(500))>>)}

\* Polylines of every kind, under each pen offset.
ShapeCalls ==
    {[polylines |-> pls, settings |-> [BaseSettings EXCEPT !.penOffset = po]] :
        pls \in SeqsOf(GenPolylineKinds, 0, MaxGenPolylines), po \in PenOffsets}

\* Longer lists, of drawn polylines and nulls.
ProgressCalls ==
    {[polylines |-> pls, settings |-> BaseSettings] :
        pls \in SeqsOf({NullPolyline, SegPolyline}, MaxGenPolylines + 1, MaxProgress)}

NotFinite == {Undefined, Null, NaN, PosInfinity, NegInfinity}

NumericFields ==
    {"bedWidth", "bedHeight", "penUpZ", "sheetHeight", "feedRate", "travelFeedRate"}

\* BaseSettings with the fields of bad holding the value junk, and a blank
\* footer template.
WithJunk(bad, junk) ==
    LET Pick(name, val) == IF name \in bad THEN junk ELSE val
    IN  [bedWidth |-> Pick("bedWidth", BaseSettings.bedWidth),
         bedHeight |-> Pick("bedHeight", BaseSettings.bedHeight),
         penUpZ |-> Pick("penUpZ", BaseSettings.penUpZ),
         sheetHeight |-> Pick("sheetHeight", BaseSettings.sheetHeight),
         penOffset |-> BaseSettings.penOffset,
         feedRate |-> Pick("feedRate", BaseSettings.feedRate),
         travelFeedRate |-> Pick("travelFeedRate", BaseSettings.travelFeedRate),
         headerTemplate |-> BaseSettings.headerTemplate,
         footerTemplate |-> Str(<<" ", " ">>)]

OddPenOffsets ==
    NotFinite \cup
    {Arr(<<NumV(Milli(1500)), NumV(Milli(-2250))>>),
     Arr(<<NaN, NumV(Milli(-2250)), PosInfinity>>),
     Arr(<<NumV(Milli(1500)), Null, Undefined>>),
     Arr(<<NumV(Milli(1500)), NumV(Milli(-2250)), NumV(Milli(50)), NumV(0)>>)}

FallbackCalls ==
    {[polylines |-> <<TriPolyline>>, settings |-> WithJunk(bad, junk)] :
        bad \in SUBSET NumericFields, junk \in NotFinite}
    \cup
    {[polylines |-> <<TriPolyline>>,
      settings |-> [WithJunk(bad, NaN) EXCEPT !.penOffset = po]] :
        bad \in {{}, NumericFields}, po \in OddPenOffsets}

FeedRates == {Num(1500), 15005000, 4000, -15005000}
TravelFeedRates == {Num(6000), 60002500, 79995000}

FeedCalls ==
    {[polylines |-> <<SegPolyline>>,
      settings |-> [BaseSettings EXCEPT !.feedRate = NumV(f),
                                        !.travelFeedRate = NumV(t)]] :
        f \in FeedRates, t \in TravelFeedRates}

Templates ==
    {Undefined, Null, Str(<<>>), Str(<<" ", "\t">>), Str(<<" ", "\n", " ">>),
     Str(TokenHeader), Str(ShortFooter),
     Str(<<" ", "{", "b", "o", "g", "u", "s", "}", "{", "o", "f", "f",
            "s", "e", "t", "Z", "}", " ">>)}

TemplateCalls ==
    {[polylines |-> <<SegPolyline>>,
      settings |-> [BaseSettings EXCEPT !.headerTemplate = h,
                                        !.footerTemplate = f]] :
        h \in Templates, f \in Templates}

GenCalls ==
    ShapeCalls \cup ProgressCalls \cup FallbackCalls \cup FeedCalls
    \cup TemplateCalls

\* The pieces the templates handed to _expandTemplate are made of.
TplPieces ==
    {<<"{", "a", "}">>, <<"{", "b", "}">>, <<"{", "z", "z", "}">>,
     <<"{", "a", "_", "1", "}">>, <<"{">>, <<"}">>, <<"a">>, <<" ">>}

RECURSIVE Concat(_)
Concat(pieces) ==
    IF Len(pieces) = 0 THEN <<>> ELSE pieces[1] \o Concat(Tail(pieces))

TplTemplates == {Concat(ps) : ps \in SeqsOf(TplPieces, 0, MaxPieces)}

\* Context objects: values that are empty, that hold a token, that hold a
\* brace; and the empty object.
TplContexts ==
    {<<>>,
     << <<<<"a">>, <<"1">>>>, <<<<"b">>, <<"{", "a", "}">>>> >>,
     << <<<<"a">>, <<>>>>, <<<<"a", "_", "1">>, <<"{", "z", "z", "}">>>> >>,
     << <<<<"z", "z">>, <<"b", "}">>>>, <<<<"b">>, <<"{">>>> >>}

InitGen ==
    /\ OptIdle
    /\ ValIdle
    /\ SvgIdle
    /\ genPc = "call"
    /\ genResult = <<>>
    /\ genHeaderEnd = 0
    /\ genBodyEnd = 0
    /\ tplResult = <<>>
    /\ \/ /\ genCall = "generate"
          /\ \E call \in GenCalls :
                /\ genPolylines = call.polylines
                /\ genSettings = call.settings
          /\ genNow = Timestamp
          /\ tplTemplate = <<>>
          /\ tplContext = <<>>
       \/ /\ genCall = "expand"
          /\ tplTemplate \in TplTemplates
          /\ tplContext \in TplContexts
          /\ genPolylines = <<>>
          /\ genSettings = <<>>
          /\ genNow = <<>>

Generate ==
    /\ genPc = "call"
    /\ genCall = "generate"
    /\ LET parts == GcodeParts(genPolylines, genSettings, genNow)
       IN  /\ genHeaderEnd' = Len(parts.header) + 1
           /\ genBodyEnd' = Len(parts.header) + 1 + Len(parts.body)
    /\ genResult' = generate(genPolylines, genSettings, genNow)
    /\ genPc' = "done"
    /\ UNCHANGED <<genCall, genPolylines, genSettings, genNow,
                   tplTemplate, tplContext, tplResult, optVars, valVars,
                   svgVars>>

ExpandTemplate ==
    /\ genPc = "call"
    /\ genCall = "expand"
    /\ tplResult' = _expandTemplate(tplTemplate, tplContext)
    /\ genPc' = "done"
    /\ UNCHANGED <<genCall, genPolylines, genSettings, genNow, genResult,
                   genHeaderEnd, genBodyEnd, tplTemplate, tplContext,
                   optVars, valVars, svgVars>>

NextGen == Generate \/ ExpandTemplate

SpecGen == InitGen /\ [][NextGen]_vars

(***************************************************************************)
(* GCodeGenerator.generate followed by GCodeValidator.validate             *)
(*                                                                         *)
(* generate is called with a bed size and nothing else (templates, pen     *)
(* offset, heights and feed rates take their defaults); validate is called *)
(* on its text with the same bed size and nothing else.                    *)
(***************************************************************************)
MaxChkPolylines == 2

\* Bed sizes: the default, a small bed, and a bed whose size has a fourth
\* decimal.
ChkBeds == {<<Num(256), Num(256)>>, <<Num(100), Num(50)>>, <<999996, 999996>>}

\* Points of the bed: its corners, a point inside and a point that toFixed
\* rounds up onto the far edge.
ChkPoints(bed) ==
    {<<0, 0>>, <<bed[1], bed[2]>>, <<123456, Milli(3500)>>, <<bed[1], 0>>,
     <<bed[1] - 4, bed[2] - 4>>}

\* Polylines of these points; one of a single point, which is not drawn.
ChkPolylines(bed) ==
    {Arr(<<p>>) : p \in {<<0, 0>>}}
    \cup {Arr(<<<<0, 0>>, q>>) : q \in ChkPoints(bed)}
    \cup {Arr(<<<<bed[1], bed[2]>>, <<0, bed[2]>>, <<0, 0>>>>)}

GenerateSettings(bed) ==
    [bedWidth |-> NumV(bed[1]), bedHeight |-> NumV(bed[2]),
     penUpZ |-> Undefined, sheetHeight |-> Undefined, penOffset |-> Undefined,
     feedRate |-> Undefined, travelFeedRate |-> Undefined,
     headerTemplate |-> Undefined, footerTemplate |-> Undefined]

ValidateSettings(bed) ==
    [bedWidth |-> NumV(bed[1]), bedHeight |-> NumV(bed[2]),
     maxZ |-> Undefined, maxFeedRate |-> Undefined]

InitChk ==
    /\ OptIdle /\ ValIdle /\ GenIdle
    /\ XfIdle /\ MgrIdle /\ AppIdle /\ PathIdle /\ TfIdle
    /\ HistIdle /\ UndoIdle /\ LaterIdle
    /\ chkBed \in ChkBeds
    /\ chkPolylines \in SeqsOf(ChkPolylines(chkBed), 0, MaxChkPolylines)
    /\ chkGcode = <<>>
    /\ chkResult = NoValResult
    /\ chkPc = "generate"

ChkFrame ==
    UNCHANGED <<optVars, valVars, genVars, xfVars, mgrVars, appVars, pathVars, tfVars,
                histVars, undoVars, laterVars>>

ChkGenerate ==
    /\ chkPc = "generate"
    /\ chkGcode' = generate(chkPolylines, GenerateSettings(chkBed), Timestamp)
    /\ chkPc' = "validate"
    /\ UNCHANGED <<chkPolylines, chkBed, chkResult>>
    /\ ChkFrame

ChkValidate ==
    /\ chkPc = "validate"
    /\ chkResult' = validate(chkGcode, ValidateSettings(chkBed))
    /\ chkPc' = "done"
    /\ UNCHANGED <<chkPolylines, chkBed, chkGcode>>
    /\ ChkFrame

NextChk == ChkGenerate \/ ChkValidate

SpecChk == InitChk /\ [][NextChk]_vars


(***************************************************************************)
(* SVGManager (docs/js): getTransformedPolylines                           *)
(*                                                                         *)
(* Lengths, scales, sines and cosines of this part are integers in units   *)
(* of 1/SvgQ.  The drawings, scales and rotations below are chosen so that *)
(* every product and every halving of the code is exact in these units.    *)
(***************************************************************************)
SvgQ == 40
Whole(n) == n * SvgQ
Half(n) == n * (SvgQ \div 2)

\* The product of two numbers.
Times(a, b) == (a * b) \div SvgQ

\* Math.cos and Math.sin of rotation * PI / 180, the rotation in degrees.
\* 53 stands for the angle atan(4/3) = 53.13... degrees, whose cosine and
\* sine are 3/5 and 4/5; the other rotations are right angles.
Cos(rotation) ==
    CASE rotation = 0 -> Whole(1)
      [] rotation = 90 -> 0
      [] rotation = 180 -> -Whole(1)
      [] rotation = 270 -> 0
      [] rotation = -90 -> 0
      [] rotation = 53 -> 3 * (SvgQ \div 5)

Sin(rotation) ==
    CASE rotation = 0 -> 0
      [] rotation = 90 -> Whole(1)
      [] rotation = 180 -> 0
      [] rotation = 270 -> -Whole(1)
      [] rotation = -90 -> -Whole(1)
      [] rotation = 53 -> 4 * (SvgQ \div 5)

\* A JavaScript object that may be missing, with the one field the code
\* reads through it.
NoObject == [t |-> "undefined", avgScale |-> Undefined]
ScaleFactor(avgScale) == [t |-> "object", avgScale |-> avgScale]
NoMetadata == [t |-> "undefined", scaleFactor |-> NoObject]
Metadata(scaleFactor) == [t |-> "object", scaleFactor |-> scaleFactor]

\* svg.metadata?.scaleFactor?.avgScale
AvgScaleOf(svg) ==
    IF svg.metadata.t = "undefined" THEN Undefined
    ELSE IF svg.metadata.scaleFactor.t = "undefined" THEN Undefined
    ELSE svg.metadata.scaleFactor.avgScale

\* What || takes for false: undefined, null, NaN and 0.
Falsy(val) == val.t \in {"undefined", "null", "nan"} \/ (val.t = "num" /\ val.v = 0)

DEFAULT_SCALE == Whole(1)

\* const mmScale = svg.metadata?.scaleFactor?.avgScale || DEFAULT_SCALE
MmScale(svg) == IF Falsy(AvgScaleOf(svg)) THEN DEFAULT_SCALE ELSE AvgScaleOf(svg).v

\* const [centerX, centerY] = svg.centerViewBox || [0, 0]
CenterViewBox(svg) == IF svg.centerViewBox.t = "array" THEN svg.centerViewBox.v ELSE <<0, 0>>

\* The pivot: the centre of the view box, scaled as the points are.
Pivot(svg) ==
    <<Times(Times(CenterViewBox(svg)[1], MmScale(svg)), svg.scale),
      Times(Times(CenterViewBox(svg)[2], MmScale(svg)), svg.scale)>>

\* One point scaled, then rotated around the pivot.
ScaleAndRotate(p, svg) ==
    LET sx == Times(Times(p[1], MmScale(svg)), svg.scale)
        sy == Times(Times(p[2], MmScale(svg)), svg.scale)
        dx == sx - Pivot(svg)[1]
        dy == sy - Pivot(svg)[2]
        cos == Cos(svg.rotation)
        sin == Sin(svg.rotation)
    IN <<Times(dx, cos) - Times(dy, sin) + Pivot(svg)[1],
         Times(dx, sin) + Times(dy, cos) + Pivot(svg)[2]>>

MapPoints(pls, f(_)) == [k \in 1..Len(pls) |-> [n \in 1..Len(pls[k]) |-> f(pls[k][n])]]

\* Every point of a list of polylines.
PointsOf(pls) == UNION {{pls[k][n] : n \in 1..Len(pls[k])} : k \in 1..Len(pls)}

MinOf(S) == CHOOSE m \in S : \A o \in S : m <= o
MaxOf(S) == CHOOSE m \in S : \A o \in S : m >= o

\* The box around the points: [minX, minY, maxX, maxY].  Without any point
\* the code's bounds stay infinite; no point is then shifted by them.
BoundsOf(points) ==
    IF points = {} THEN <<0, 0, 0, 0>>
    ELSE <<MinOf({p[1] : p \in points}), MinOf({p[2] : p \in points}),
           MaxOf({p[1] : p \in points}), MaxOf({p[2] : p \in points})>>

\* The centre of the box, taken for the translation-independent pivot
\* itself.
RotatedCenterIsPivot(transformed, svg) == Pivot(svg)

\* const rotatedCenterX = (bounds.minX + bounds.maxX) / 2, and Y alike
RotatedCenter(transformed, svg) ==
    LET bounds == BoundsOf(PointsOf(transformed))
    IN <<(bounds[1] + bounds[3]) \div 2, (bounds[2] + bounds[4]) \div 2>>

getTransformedPolylines(svg) ==
    LET Rotated(p) == ScaleAndRotate(p, svg)
        transformed == MapPoints(svg.polylines, Rotated)
        rotatedCenter == RotatedCenter(transformed, svg)
        Placed(p) == <<p[1] - rotatedCenter[1] + svg.translation[1],
                       p[2] - rotatedCenter[2] + svg.translation[2]>>
    IN MapPoints(transformed, Placed)

\* ---- the drawings the function is applied to
MaxSvgPoints == 3

SvgPoints == {<<0, 0>>, <<Whole(4), 0>>, <<Whole(4), Whole(2)>>, <<Whole(-2), Whole(3)>>}

\* One polyline of up to MaxSvgPoints points, or several polylines, an
\* empty one among them; the last two drawings have no point at all.
SvgDrawings ==
    {<<pl>> : pl \in SeqsOf(SvgPoints, 1, MaxSvgPoints)}
    \cup {<< <<<<Whole(-2), Whole(3)>>, <<Whole(6), Whole(-1)>>>>, <<>>, <<<<0, Whole(8)>>>> >>,
          << <<<<Whole(1), Whole(1)>>, <<Whole(3), Whole(1)>>>>, <<<<Whole(2), Whole(5)>>, <<Whole(2), 0>>>> >>,
          <<>>, << <<>> >>}

SvgTranslations == {<<Whole(128), Whole(128)>>, <<-140, 290>>}
SvgScales == {Whole(1), Half(1), Whole(-2), 0}
SvgRotations == {0, 90, 180, 270, -90, 53}
SvgMetadata == {NoMetadata, Metadata(NoObject), Metadata(ScaleFactor(NumV(0))),
                Metadata(ScaleFactor(NumV(Whole(3))))}
SvgCenters == {Undefined, Arr(<<Whole(1), Half(3)>>)}

SvgObjects ==
    [polylines : SvgDrawings, translation : SvgTranslations, scale : SvgScales,
     rotation : SvgRotations, metadata : SvgMetadata, centerViewBox : SvgCenters]

OthersIdleForSvg == OptIdle /\ ValIdle /\ GenIdle

InitXf ==
    /\ OthersIdleForSvg
    /\ ExtIdle
    /\ TfIdle
    /\ MgrIdle
    /\ AppIdle
    /\ PathIdle
    /\ xfSvg \in SvgObjects
    /\ xfPc = "call"
    /\ xfResult = <<>>

GetTransformedPolylines ==
    /\ xfPc = "call"
    /\ xfResult' = getTransformedPolylines(xfSvg)
    /\ xfPc' = "done"
    /\ UNCHANGED <<xfSvg, optVars, valVars, genVars, tfVars, extVars, mgrVars, appVars, pathVars>>

NextXf == GetTransformedPolylines

SpecXf == InitXf /\ [][NextXf]_vars


(***************************************************************************)
(* SVGManager (docs/js): the collection of drawings and the selection      *)
(***************************************************************************)
BED_CENTER_FACTOR == Half(1)
DEFAULT_ROTATION == 90
MGR_DEFAULT_BED_SIZE == Whole(256)

\* `svg_${n}`
SvgId(n) == Str(<<"s", "v", "g", "_">> \o NatToString(n))

\* new SVGManager().  svgObjects is the Map in insertion order.
NewSVGManager ==
    [svgObjects |-> <<>>, selectedId |-> Null, bedWidth |-> MGR_DEFAULT_BED_SIZE,
     bedHeight |-> MGR_DEFAULT_BED_SIZE, nextId |-> 1]

\* Map.has, Map.get (position of the entry, 0 without one), Map.delete
MapHas(objects, id) == \E k \in 1..Len(objects) : objects[k].id = id
MapIndex(objects, id) ==
    IF MapHas(objects, id) THEN CHOOSE k \in 1..Len(objects) : objects[k].id = id ELSE 0
MapDelete(objects, id) ==
    IF MapHas(objects, id) THEN RemoveAt(objects, MapIndex(objects, id)) ELSE objects

\* Map.set: a new key goes last, a known key keeps its place.
MapSet(objects, id, obj) ==
    IF MapHas(objects, id) THEN [objects EXCEPT ![MapIndex(objects, id)] = obj]
    ELSE Append(objects, obj)

\* this.selectedId = id
SelectedIdSet(m, id) == id

addSVG(m, filename, pls, originalBounds, initialScale, metadata) ==
    LET id == SvgId(m.nextId)
        svgCenterX == (originalBounds.minX + originalBounds.maxX) \div 2
        svgCenterY == (originalBounds.minY + originalBounds.maxY) \div 2
        initialX == Times(m.bedWidth, BED_CENTER_FACTOR)
        initialY == Times(m.bedHeight, BED_CENTER_FACTOR)
        svgObject == [id |-> id, filename |-> filename, polylines |-> pls,
                      originalBounds |-> originalBounds,
                      centerViewBox |-> Arr(<<svgCenterX, svgCenterY>>),
                      translation |-> <<initialX, initialY>>,
                      scale |-> initialScale, rotation |-> DEFAULT_ROTATION,
                      visible |-> TRUE, metadata |-> metadata]
    IN [m EXCEPT !.nextId = m.nextId + 1,
                 !.svgObjects = MapSet(m.svgObjects, id, svgObject),
                 !.selectedId = SelectedIdSet(m, id)]

removeSVG(m, id) ==
    [m EXCEPT !.svgObjects = MapDelete(m.svgObjects, id),
              !.selectedId = IF m.selectedId = id THEN Null ELSE m.selectedId]

selectSVG(m, id) == [m EXCEPT !.selectedId = id]

\* The drawing returned, or Undefined.
getSelectedSVG(m) ==
    IF MapHas(m.svgObjects, m.selectedId)
    THEN m.svgObjects[MapIndex(m.svgObjects, m.selectedId)]
    ELSE Undefined

updateTransformation(m, id, translation, scale, rotation) ==
    IF MapHas(m.svgObjects, id)
    THEN [m EXCEPT !.svgObjects[MapIndex(m.svgObjects, id)] =
                        [@ EXCEPT !.translation = translation, !.scale = scale,
                                  !.rotation = rotation]]
    ELSE m

toggleVisibility(m, id) ==
    IF MapHas(m.svgObjects, id)
    THEN [m EXCEPT !.svgObjects[MapIndex(m.svgObjects, id)].visible = ~@]
    ELSE m

setBedSize(m, width, height) == [m EXCEPT !.bedWidth = width, !.bedHeight = height]

\* ---- the calls made
MaxSvgAdds == 2

\* What an import hands to addSVG: filename, polylines, bounds, initial
\* scale and metadata.
Bounds(minX, minY, maxX, maxY) == [minX |-> minX, minY |-> minY, maxX |-> maxX, maxY |-> maxY]

ImportedSvgs ==
    {[filename |-> "a.svg",
      polylines |-> << <<<<0, 0>>, <<Whole(4), 0>>, <<Whole(4), Whole(2)>>>> >>,
      originalBounds |-> Bounds(0, 0, Whole(4), Whole(2)),
      initialScale |-> Whole(1),
      metadata |-> Metadata(ScaleFactor(NumV(Whole(3))))],
     [filename |-> "b.svg",
      polylines |-> << <<<<Whole(1), Whole(1)>>, <<Whole(3), Whole(1)>>>>,
                       <<<<Whole(2), Whole(5)>>, <<Whole(2), 0>>>> >>,
      originalBounds |-> Bounds(Whole(1), 0, Whole(3), Whole(5)),
      initialScale |-> DEFAULT_SCALE,
      metadata |-> Metadata(NoObject)]}

\* The ids a caller can pass: those handed out so far or not yet, and null.
IdArguments == {SvgId(n) : n \in 1..(MaxSvgAdds + 1)} \cup {Null}

Transformations == {[translation |-> <<Whole(10), Whole(20)>>, scale |-> Whole(2), rotation |-> 0]}

BedSizes == {<<Whole(256), Whole(256)>>, <<Whole(100), Whole(50)>>}

Called(op, id) == [op |-> op, id |-> id]

InitMgr ==
    /\ OthersIdleForSvg
    /\ ExtIdle
    /\ TfIdle
    /\ XfIdle
    /\ AppIdle
    /\ PathIdle
    /\ svgManager = NewSVGManager
    /\ mgrCall = Called("new", Null)

AddSVG ==
    /\ svgManager.nextId <= MaxSvgAdds
    /\ \E f \in ImportedSvgs :
        svgManager' = addSVG(svgManager, f.filename, f.polylines, f.originalBounds,
                             f.initialScale, f.metadata)
    /\ mgrCall' = Called("addSVG", SvgId(svgManager.nextId))
    /\ UNCHANGED <<optVars, valVars, genVars, tfVars, extVars, xfVars, appVars, pathVars>>

RemoveSVG ==
    /\ \E id \in IdArguments :
        /\ svgManager' = removeSVG(svgManager, id)
        /\ mgrCall' = Called("removeSVG", id)
    /\ UNCHANGED <<optVars, valVars, genVars, tfVars, extVars, xfVars, appVars, pathVars>>

SelectSVG ==
    /\ \E id \in IdArguments :
        /\ svgManager' = selectSVG(svgManager, id)
        /\ mgrCall' = Called("selectSVG", id)
    /\ UNCHANGED <<optVars, valVars, genVars, tfVars, extVars, xfVars, appVars, pathVars>>

UpdateTransformation ==
    /\ \E id \in IdArguments, t \in Transformations :
        /\ svgManager' = updateTransformation(svgManager, id, t.translation, t.scale, t.rotation)
        /\ mgrCall' = Called("updateTransformation", id)
    /\ UNCHANGED <<optVars, valVars, genVars, tfVars, extVars, xfVars, appVars, pathVars>>

ToggleVisibility ==
    /\ \E id \in IdArguments :
        /\ svgManager' = toggleVisibility(svgManager, id)
        /\ mgrCall' = Called("toggleVisibility", id)
    /\ UNCHANGED <<optVars, valVars, genVars, tfVars, extVars, xfVars, appVars, pathVars>>

SetBedSize ==
    /\ \E b \in BedSizes :
        svgManager' = setBedSize(svgManager, b[1], b[2])
    /\ mgrCall' = Called("setBedSize", Null)
    /\ UNCHANGED <<optVars, valVars, genVars, tfVars, extVars, xfVars, appVars, pathVars>>

NextMgr ==
    \/ AddSVG
    \/ RemoveSVG
    \/ SelectSVG
    \/ UpdateTransformation
    \/ ToggleVisibility
    \/ SetBedSize

SpecMgr == InitMgr /\ [][NextMgr]_vars


(***************************************************************************)
(* HistoryManager.pushState, as the App's handlers use it                  *)
(***************************************************************************)
maxHistorySize == 50

NewHistoryManager == [undoStack |-> <<>>, redoStack |-> <<>>]

\* JSON.parse(JSON.stringify(data)): the snapshots cloned here hold finite
\* numbers, strings, booleans, arrays and plain objects, which the clone
\* keeps; a field that is undefined and a field that is absent are the same
\* value of this model.
JsonClone(data) == data

pushStateUnlimited(h, action, data) ==
    [undoStack |-> Append(h.undoStack, [action |-> action, data |-> JsonClone(data)]),
     redoStack |-> <<>>]

\* The entry's timestamp (Date.now()) is not kept.
pushState(h, action, data) ==
    LET state == [action |-> action, data |-> JsonClone(data)]
        pushed == Append(h.undoStack, state)
    IN [undoStack |-> IF Len(pushed) > maxHistorySize THEN Tail(pushed) ELSE pushed,
        redoStack |-> <<>>]


\* canUndo() / canRedo()
canUndo(h) == Len(h.undoStack) > 0

canRedo(h) == Len(h.redoStack) > 0

Top(stack) == stack[Len(stack)]

Unpopped(stack) == stack

\* Array.pop: the array without its last element
Popped(stack) == SubSeq(stack, 1, Len(stack) - 1)

\* A call's outcome: the manager after it and what it returned.
Outcome(h, returned) == [manager |-> h, returned |-> returned]

undo(h) ==
    IF ~canUndo(h) THEN Outcome(h, Null)
    ELSE LET state == Top(h.undoStack)
         IN Outcome([undoStack |-> Popped(h.undoStack),
                     redoStack |-> Append(h.redoStack, state)], state)

redo(h) ==
    IF ~canRedo(h) THEN Outcome(h, Null)
    ELSE LET state == Top(h.redoStack)
         IN Outcome([undoStack |-> Append(h.undoStack, state),
                     redoStack |-> Popped(h.redoStack)], state)

clear(h) == [undoStack |-> <<>>, redoStack |-> <<>>]

(***************************************************************************)
(* A HistoryManager under any sequence of its calls.  The data of the k-th *)
(* pushState is the number k, so that every entry tells when it was        *)
(* pushed; the calls of pushState and of undo are counted and bounded.     *)
(***************************************************************************)
MaxPushes == 52

MaxUndos == 1

HistoryActions == {"transform"}

InitHist ==
    /\ OptIdle /\ ValIdle /\ GenIdle
    /\ XfIdle /\ MgrIdle /\ AppIdle /\ PathIdle /\ TfIdle
    /\ UndoIdle /\ ChkIdle /\ LaterIdle
    /\ historyManager = NewHistoryManager
    /\ histBefore = NewHistoryManager
    /\ histCall = [op |-> "new", returned |-> Undefined]
    /\ histPushed = 0
    /\ histUndone = 0

HistFrame ==
    UNCHANGED <<optVars, valVars, genVars, xfVars, mgrVars, appVars, pathVars, tfVars, undoVars,
                chkVars, laterVars>>

PushState ==
    /\ histPushed < MaxPushes
    /\ \E action \in HistoryActions :
        historyManager' = pushState(historyManager, action, [serial |-> histPushed + 1])
    /\ histBefore' = historyManager
    /\ histCall' = [op |-> "pushState", returned |-> Undefined]
    /\ histPushed' = histPushed + 1
    /\ UNCHANGED histUndone
    /\ HistFrame

Undo ==
    /\ histUndone < MaxUndos
    /\ historyManager' = undo(historyManager).manager
    /\ histBefore' = historyManager
    /\ histCall' = [op |-> "undo", returned |-> undo(historyManager).returned]
    /\ histUndone' = histUndone + 1
    /\ UNCHANGED histPushed
    /\ HistFrame

Redo ==
    /\ historyManager' = redo(historyManager).manager
    /\ histBefore' = historyManager
    /\ histCall' = [op |-> "redo", returned |-> redo(historyManager).returned]
    /\ UNCHANGED <<histPushed, histUndone>>
    /\ HistFrame

Clear ==
    /\ historyManager' = clear(historyManager)
    /\ histBefore' = historyManager
    /\ histCall' = [op |-> "clear", returned |-> Undefined]
    /\ UNCHANGED <<histPushed, histUndone>>
    /\ HistFrame

NextHist == PushState \/ Undo \/ Redo \/ Clear

SpecHist == InitHist /\ [][NextHist]_vars

(***************************************************************************)
(* App (docs/js): importing a file                                         *)
(***************************************************************************)
ToLower(c) ==
    IF c \in Upper THEN LowerChars[CHOOSE i \in 1..26 : UpperChars[i] = c] ELSE c

ToLowerStr(s) == [i \in 1..Len(s) |-> ToLower(s[i])]

EndsWith(s, suffix) ==
    Len(s) >= Len(suffix) /\ SubSeq(s, Len(s) - Len(suffix) + 1, Len(s)) = suffix

\* const isSVG = file.type === 'image/svg+xml' || file.name.toLowerCase().endsWith('.svg')
IsSVGFile(file) ==
    file.type = <<"i", "m", "a", "g", "e", "/", "s", "v", "g", "+", "x",
                  "m", "l">> \/ EndsWith(ToLowerStr(file.name), <<".", "s", "v", "g">>)

rasterTypes ==
    {<<"i", "m", "a", "g", "e", "/", "p", "n", "g">>, <<"i", "m", "a", "g", "e", "/", "j", "p", "e", "g">>, <<"i", "m", "a", "g", "e", "/", "j", "p", "g">>, <<"i", "m", "a", "g", "e", "/", "g", "i", "f">>, <<"i", "m", "a", "g", "e", "/", "b", "m", "p">>, <<"i", "m", "a", "g", "e", "/", "w", "e", "b", "p">>}

rasterExtensions == {<<".", "p", "n", "g">>, <<".", "j", "p", "g">>, <<".", "j", "p", "e", "g">>, <<".", "g", "i", "f">>, <<".", "b", "m", "p">>, <<".", "w", "e", "b", "p">>}

_isRasterImage(file) ==
    \/ ToLowerStr(file.type) \in rasterTypes
    \/ \E ext \in rasterExtensions : EndsWith(ToLowerStr(file.name), ext)

\* file.name.replace(/\.[^/.]+$/, '') + '.svg': the last dot and what follows
\* it, when at least one character follows and none of them is a slash.
ReplaceExtension(name) ==
    LET dots == {i \in 1..Len(name) : name[i] = "."}
        last == IF dots = {} THEN 0 ELSE CHOOSE i \in dots : \A j \in dots : j <= i
    IN IF last > 0 /\ last < Len(name) /\ \A j \in (last + 1)..Len(name) : name[j] # "/"
       THEN SubSeq(name, 1, last - 1) \o <<".", "s", "v", "g">>
       ELSE name \o <<".", "s", "v", "g">>

\* What the DOMParser and the element loop of SVGProcessor._processContent
\* make of a text: "malformed" when the parsed document holds a parsererror,
\* else the result for the polylines found.  No polylines: the result of a
\* document that parsed and held nothing drawable.
EmptyResult ==
    [polylines |-> <<>>, bounds |-> Bounds(0, 0, Whole(100), Whole(100)),
     scaleFactor |-> NoObject]

ParsedResult(f) ==
    [polylines |-> f.polylines, bounds |-> f.originalBounds,
     scaleFactor |-> f.metadata.scaleFactor]

\* The texts a file or a conversion can hold.
Markup(kind, result) == [kind |-> kind, result |-> result]

Markups ==
    {Markup("malformed", EmptyResult), Markup("parsed", EmptyResult)}
    \cup {Markup("parsed", ParsedResult(f)) : f \in ImportedSvgs}

\* A thrown Error with its message, or the value returned.
Thrown(message) == [t |-> "error", message |-> message, value |-> <<>>]
Returned(value) == [t |-> "value", message |-> <<>>, value |-> value]

ParseErrorMessage == <<"F", "a", "i", "l", "e", "d", " ", "t", "o", " ",
                       "p", "a", "r", "s", "e", " ", "S", "V", "G", " ",
                       "f", "i", "l", "e">>

_processContent(svgContent) ==
    IF svgContent.kind = "malformed" THEN Thrown(ParseErrorMessage)
    ELSE Returned(svgContent.result)

NoPathsMessage == <<"N", "o", " ", "p", "a", "t", "h", "s", " ", "f", "o",
                    "u", "n", "d", " ", "i", "n", " ", "S", "V", "G", " ",
                    "f", "i", "l", "e", ".">>

\* SVGProcessor.loadSVG rethrows; _loadSVGFile throws when there is no
\* polyline.
_loadSVGFile(file) ==
    LET loaded == _processContent(file.content)
    IN IF loaded.t = "error" THEN loaded
       ELSE IF Len(loaded.value.polylines) = 0 THEN Thrown(NoPathsMessage)
       ELSE loaded

\* The alert of _handleFileImport's catch.
ImportFailedAlert(message) ==
    <<"F", "a", "i", "l", "e", "d", " ", "t", "o", " ", "i", "m", "p", "o",
      "r", "t", " ", "f", "i", "l", "e", ":", " ">> \o message \o <<"\n", "\n", "C", "h", "e", "c",
                                                "k", " ", "c", "o", "n", "s", "o",
                                                "l", "e", " ", "(", "F", "1", "2",
                                                ")", " ", "f", "o", "r", " ", "d",
                                                "e", "t", "a", "i", "l", "s", ".">>

NoPathsConvertedAlert == <<"N", "o", " ", "p", "a", "t", "h", "s", " ",
                           "f", "o", "u", "n", "d", " ", "i", "n", " ",
                           "c", "o", "n", "v", "e", "r", "t", "e", "d",
                           " ", "S", "V", "G", ".">>

\* if (!dialogResult) return, left out.
NeverCancelled(dialogResult) == FALSE

\* if (!dialogResult) return
Cancelled(dialogResult) == dialogResult = Null

_captureState(m, action, id) ==
    IF ~MapHas(m.svgObjects, id) THEN Null
    ELSE LET svg == m.svgObjects[MapIndex(m.svgObjects, id)]
         IN [id |-> id, action |-> action, translation |-> svg.translation,
             scale |-> svg.scale, rotation |-> svg.rotation, visible |-> svg.visible,
             filename |-> svg.filename, polylines |-> svg.polylines,
             originalBounds |-> svg.originalBounds, metadata |-> svg.metadata]

\* The manager and the app after a handler's step.
Both(m, a) == [svgManager |-> m, app |-> a]

\* _selectSVG(id): the list, the transform controls and the preview are
\* display only.
_selectSVG(b, id) ==
    Both(selectSVG(b.svgManager, id), [b.app EXCEPT !.selectedSVGId = id])

\* _calculateSVGPlacement: { id: null, autoScale: 1.0 }
autoScale == Whole(1)

_addSVGToWorkspace(b, filename, svgData) ==
    LET m == addSVG(b.svgManager, filename, svgData.polylines, svgData.bounds, autoScale,
                    Metadata(svgData.scaleFactor))
        id == SvgId(b.svgManager.nextId)
        afterState == _captureState(m, "add", id)
        history == IF ~b.app.pendingHistoryAction /\ afterState # Null
                   THEN pushState(b.app.history, "add", afterState)
                   ELSE b.app.history
    IN _selectSVG(Both(m, [b.app EXCEPT !.history = history]), id)

_removeSVG(b, id) ==
    LET beforeState == _captureState(b.svgManager, "remove", id)
        history == IF ~b.app.pendingHistoryAction /\ beforeState # Null
                   THEN pushState(b.app.history, "remove", beforeState)
                   ELSE b.app.history
        m == removeSVG(b.svgManager, id)
        removed == Both(m, [b.app EXCEPT !.history = history])
    IN IF Len(m.svgObjects) > 0 THEN _selectSVG(removed, m.svgObjects[1].id)
       ELSE Both(m, [removed.app EXCEPT !.selectedSVGId = Null])

\* ---- the files imported and the answers of the dialogs
File(name, type, content) == [name |-> name, type |-> type, content |-> content]

SvgFileNames == {<<<<"a", ".", "s", "v", "g">>, <<"i", "m", "a", "g", "e", "/", "s", "v",
                                "g", "+", "x", "m", "l">>>>, <<<<"B", ".", "S", "V", "G">>, <<>>>>, <<<<"n", "o", "t", "e", "s", ".", "t", "x", "t">>, <<"t", "e", "x", "t", "/", "p", "l", "a", "i", "n">>>>}

RasterFileNames == {<<<<"c", ".", "p", "n", "g">>, <<"i", "m", "a", "g", "e", "/", "p", "n", "g">>>>}

ImportFiles ==
    {File(n[1], n[2], c) : n \in SvgFileNames, c \in Markups}
    \cup {File(n[1], n[2], Markup("image", EmptyResult)) : n \in RasterFileNames}

Confirmed == [t |-> "object", v |-> 0]

DialogResults == {Null, Confirmed}

\* What the image dialog resolves with: null, or the SVG text converted.
Conversions == {Null} \cup {Str(c) : c \in Markups}

NoImport == [file |-> Null, result |-> Null, answers |-> <<>>, before |-> Null]

NewApp == [selectedSVGId |-> Null, pendingHistoryAction |-> FALSE, history |-> NewHistoryManager]

InitApp ==
    /\ OthersIdleForSvg
    /\ ExtIdle
    /\ TfIdle
    /\ XfIdle
    /\ PathIdle
    /\ svgManager = NewSVGManager
    /\ mgrCall = <<>>
    /\ app = NewApp
    /\ appPc = "idle"
    /\ appImport = NoImport
    /\ appAlert = <<>>

Begun(file) ==
    [file |-> file, result |-> Null, answers |-> <<>>, before |-> Both(svgManager, app)]

\* _handleFileImport up to its first dialog, or to its end when the file
\* fails to load.
HandleFileImport ==
    /\ appPc = "idle"
    /\ svgManager.nextId <= MaxSvgAdds
    /\ \E file \in ImportFiles :
        IF IsSVGFile(file) \/ ~_isRasterImage(file)
        THEN LET loaded == _loadSVGFile(file)
             IN IF loaded.t = "error"
                THEN /\ appAlert' = ImportFailedAlert(loaded.message)
                     /\ appImport' = Begun(file)
                     /\ appPc' = "idle"
                ELSE /\ appAlert' = <<>>
                     /\ appImport' = [Begun(file) EXCEPT !.result = loaded.value]
                     /\ appPc' = "importDialog"
        ELSE /\ appAlert' = <<>>
             /\ appImport' = Begun(file)
             /\ appPc' = "imageDialog"
    /\ UNCHANGED <<optVars, valVars, genVars, tfVars, extVars, xfVars, mgrVars, app, pathVars>>

\* _handleImageImport from the answer of the image dialog to the import
\* dialog, or to its end.
ImageDialogAnswered ==
    /\ appPc = "imageDialog"
    /\ \E svgString \in Conversions :
        /\ appImport' = [appImport EXCEPT
                            !.answers = Append(@, svgString),
                            !.result = IF svgString # Null /\ _processContent(svgString.v).t = "value"
                                       THEN _processContent(svgString.v).value ELSE Null]
        /\ IF svgString = Null
           THEN appAlert' = <<>> /\ appPc' = "idle"
           ELSE LET result == _processContent(svgString.v)
                IN IF result.t = "error"
                   THEN appAlert' = ImportFailedAlert(result.message) /\ appPc' = "idle"
                   ELSE IF Len(result.value.polylines) = 0
                   THEN appAlert' = NoPathsConvertedAlert /\ appPc' = "idle"
                   ELSE appAlert' = <<>> /\ appPc' = "importDialog"
    /\ UNCHANGED <<optVars, valVars, genVars, tfVars, extVars, xfVars, mgrVars, app, pathVars>>

\* _handleSVGImport and _handleImageImport from the answer of the import
\* dialog on.
ImportDialogAnswered ==
    /\ appPc = "importDialog"
    /\ \E dialogResult \in DialogResults :
        /\ appImport' = [appImport EXCEPT !.answers = Append(@, dialogResult)]
        /\ IF Cancelled(dialogResult)
           THEN UNCHANGED <<svgManager, app>>
           ELSE LET filename == IF IsSVGFile(appImport.file) \/ ~_isRasterImage(appImport.file)
                                THEN appImport.file.name
                                ELSE ReplaceExtension(appImport.file.name)
                    added == _addSVGToWorkspace(Both(svgManager, app), filename, appImport.result)
                IN svgManager' = added.svgManager /\ app' = added.app
    /\ appPc' = "idle"
    /\ UNCHANGED <<optVars, valVars, genVars, tfVars, extVars, xfVars, mgrCall, appAlert, pathVars>>

\* A click on a drawing of the list, or on its Remove button, while no
\* dialog is open.
ListItemClicked ==
    /\ appPc = "idle"
    /\ \E k \in 1..Len(svgManager.svgObjects) :
        LET selected == _selectSVG(Both(svgManager, app), svgManager.svgObjects[k].id)
        IN svgManager' = selected.svgManager /\ app' = selected.app
    /\ appImport' = NoImport
    /\ appAlert' = <<>>
    /\ UNCHANGED <<optVars, valVars, genVars, tfVars, extVars, xfVars, mgrCall, appPc, pathVars>>

RemoveClicked ==
    /\ appPc = "idle"
    /\ \E k \in 1..Len(svgManager.svgObjects) :
        LET removed == _removeSVG(Both(svgManager, app), svgManager.svgObjects[k].id)
        IN svgManager' = removed.svgManager /\ app' = removed.app
    /\ appImport' = NoImport
    /\ appAlert' = <<>>
    /\ UNCHANGED <<optVars, valVars, genVars, tfVars, extVars, xfVars, mgrCall, appPc, pathVars>>

NextApp ==
    \/ HandleFileImport
    \/ ImageDialogAnswered
    \/ ImportDialogAnswered
    \/ ListItemClicked
    \/ RemoveClicked

SpecApp == InitApp /\ [][NextApp]_vars


(***************************************************************************)
(* App (docs/js): transform, visibility, undo and redo                     *)
(***************************************************************************)

\* _toggleVisibility(id): the list button and the preview are display only.
_toggleVisibility(b, id) ==
    LET beforeState == _captureState(b.svgManager, "visibility", id)
        history == IF ~b.app.pendingHistoryAction /\ beforeState # Null
                   THEN pushState(b.app.history, "visibility", beforeState)
                   ELSE b.app.history
    IN Both(toggleVisibility(b.svgManager, id), [b.app EXCEPT !.history = history])

\* _updateTransform(): ui holds what parseFloat read from the controls,
\* the scale already divided by 100.
_updateTransform(b, ui) ==
    IF b.app.selectedSVGId = Null THEN b
    ELSE LET beforeState == _captureState(b.svgManager, "transform", b.app.selectedSVGId)
             history == IF ~b.app.pendingHistoryAction /\ beforeState # Null
                        THEN pushState(b.app.history, "transform", beforeState)
                        ELSE b.app.history
         IN Both(updateTransformation(b.svgManager, b.app.selectedSVGId,
                                      ui.translation, ui.scale, ui.rotation),
                 [b.app EXCEPT !.history = history])

\* What the 'transform' and 'visibility' cases of _restoreState assign.
TransformRestored(svg, state) ==
    [svg EXCEPT !.translation = state.translation, !.scale = state.scale,
                !.rotation = state.rotation]

VisibilityRestored(svg, state) == [svg EXCEPT !.visible = state.visible]

\* _restoreState(state) with the action given apart; pendingHistoryAction
\* is true during the call and false after it.
_restoreState(b, state, action) ==
    LET m == b.svgManager
        id == state.id
        k == MapIndex(m.svgObjects, id)
    IN CASE action = "transform" ->
              IF MapHas(m.svgObjects, id)
              THEN Both([m EXCEPT !.svgObjects[k] = TransformRestored(@, state)], b.app)
              ELSE b
         [] action = "visibility" ->
              IF MapHas(m.svgObjects, id)
              THEN Both([m EXCEPT !.svgObjects[k] = VisibilityRestored(@, state)], b.app)
              ELSE b
         [] action = "remove" ->
              Both([m EXCEPT !.svgObjects =
                        MapSet(@, id, [id |-> id, filename |-> state.filename,
                                       polylines |-> state.polylines,
                                       originalBounds |-> state.originalBounds,
                                       \* state.centerViewBox || [0, 0]
                                       centerViewBox |-> Arr(<<0, 0>>),
                                       translation |-> state.translation,
                                       scale |-> state.scale, rotation |-> state.rotation,
                                       visible |-> state.visible,
                                       metadata |-> state.metadata])],
                   b.app)
         [] action = "add" ->
              LET removed == removeSVG(m, id)
              IN IF Len(removed.svgObjects) > 0
                 THEN _selectSVG(Both(removed, b.app), removed.svgObjects[1].id)
                 ELSE Both(removed, [b.app EXCEPT !.selectedSVGId = Null])
         [] OTHER -> b

_getOppositeAction(action) ==
    CASE action = "add" -> "remove"
      [] action = "remove" -> "add"
      [] OTHER -> action

_handleUndo(b) ==
    LET done == undo(b.app.history)
        undone == Both(b.svgManager, [b.app EXCEPT !.history = done.manager])
    IN IF done.returned = Null THEN undone
       ELSE _restoreState(undone, done.returned.data, done.returned.data.action)

_handleRedo(b) ==
    LET done == redo(b.app.history)
        redone == Both(b.svgManager, [b.app EXCEPT !.history = done.manager])
    IN IF done.returned = Null THEN redone
       ELSE _restoreState(redone, done.returned.data,
                          _getOppositeAction(done.returned.data.action))

\* ---- the handlers run on an App, up to MaxAppCalls of them
MaxAppCalls == 4

\* What the position, scale and rotation controls can hold.
UiValues ==
    Transformations
    \cup {[translation |-> <<0, Whole(5)>>, scale |-> Half(1), rotation |-> 90]}

Logged(handler, id, b) == [handler |-> handler, id |-> id, svgObjects |-> b.svgManager.svgObjects]

InitUndo ==
    /\ OthersIdleForSvg
    /\ HistIdle /\ ChkIdle /\ LaterIdle
    /\ TfIdle
    /\ XfIdle
    /\ PathIdle
    /\ svgManager = NewSVGManager
    /\ mgrCall = <<>>
    /\ app = NewApp
    /\ appPc = "idle"
    /\ appImport = NoImport
    /\ appAlert = <<>>
    /\ appLog = <<>>

\* A handler ran from b to after.
Handled(handler, id, after) ==
    /\ Len(appLog) < MaxAppCalls
    /\ svgManager' = after.svgManager
    /\ app' = after.app
    /\ appLog' = Append(appLog, Logged(handler, id, after))
    /\ UNCHANGED <<optVars, valVars, genVars, tfVars, histVars, chkVars, laterVars, xfVars, mgrCall, appPc,
                   appImport, appAlert, pathVars>>

\* An import that ends in _addSVGToWorkspace.
DrawingImported ==
    /\ appPc = "idle"
    /\ svgManager.nextId <= MaxSvgAdds
    /\ \E f \in ImportedSvgs :
        Handled("import", SvgId(svgManager.nextId),
                _addSVGToWorkspace(Both(svgManager, app), f.filename, ParsedResult(f)))

DrawingSelected ==
    /\ appPc = "idle"
    /\ \E k \in 1..Len(svgManager.svgObjects) :
        Handled("select", svgManager.svgObjects[k].id,
                _selectSVG(Both(svgManager, app), svgManager.svgObjects[k].id))

TransformChanged ==
    /\ appPc = "idle"
    /\ \E ui \in UiValues :
        Handled("transform", app.selectedSVGId, _updateTransform(Both(svgManager, app), ui))

VisibilityClicked ==
    /\ appPc = "idle"
    /\ \E k \in 1..Len(svgManager.svgObjects) :
        Handled("visibility", svgManager.svgObjects[k].id,
                _toggleVisibility(Both(svgManager, app), svgManager.svgObjects[k].id))

UndoClicked ==
    /\ appPc = "idle"
    /\ Handled("undo", Null, _handleUndo(Both(svgManager, app)))

RedoClicked ==
    /\ appPc = "idle"
    /\ Handled("redo", Null, _handleRedo(Both(svgManager, app)))

NextUndo ==
    \/ DrawingImported
    \/ DrawingSelected
    \/ TransformChanged
    \/ VisibilityClicked
    \/ UndoClicked
    \/ RedoClicked

SpecUndo == InitUndo /\ [][NextUndo]_vars


(***************************************************************************)
(* SVGProcessor: the path sampler                                          *)
(*                                                                         *)
(* Coordinates are integers in units of 1/PathQ; a sampled point is        *)
(* rounded to this resolution.                                             *)
(***************************************************************************)
PathQ == 100
Units(n) == n * PathQ

QUALITY_SAMPLE_RATE == 2

\* CLOSE_THRESHOLD = 0.1
CLOSE_THRESHOLD == PathQ \div 10

\* a / b to the nearest unit
RoundDiv(a, b) == (2 * a + b) \div (2 * b)

Max(a, b) == IF a >= b THEN a ELSE b

\* The largest r in lo..hi with r * r <= n, found by halving the range.
RECURSIVE SqrtBetween(_, _, _)
SqrtBetween(n, lo, hi) ==
    IF lo >= hi THEN lo
    ELSE LET mid == (lo + hi + 1) \div 2
         IN IF mid * mid <= n THEN SqrtBetween(n, mid, hi) ELSE SqrtBetween(n, lo, mid - 1)

\* The largest r with r * r <= n.
FloorSqrt(n) == SqrtBetween(n, 0, 32 * PathQ)

IsSquare(n) == FloorSqrt(n) * FloorSqrt(n) = n

\* Math.ceil(length * samplesPerUnit) for a length that is the sum of the
\* square roots of the numbers in squares: exact when every root is a whole
\* number of units, else exact unless the sum lies within Len(squares) units
\* under a multiple of 1 / samplesPerUnit.
CeilLengthTimes(squares, samplesPerUnit) ==
    LET Sum[k \in 0..Len(squares)] ==
            IF k = 0 THEN 0 ELSE Sum[k - 1] + FloorSqrt(squares[k])
        floors == Sum[Len(squares)]
    IN IF \A k \in 1..Len(squares) : IsSquare(squares[k])
       THEN (floors * samplesPerUnit + PathQ - 1) \div PathQ
       ELSE (floors * samplesPerUnit) \div PathQ + 1

SquaredLength(x0, y0, x1, y1) == (x1 - x0) * (x1 - x0) + (y1 - y0) * (y1 - y0)

_sampleLine(x0, y0, x1, y1, samplesPerUnit) ==
    LET numSegments == Max(1, CeilLengthTimes(<<SquaredLength(x0, y0, x1, y1)>>, samplesPerUnit))
    IN [k \in 1..(numSegments + 1) |->
            <<x0 + RoundDiv((x1 - x0) * (k - 1), numSegments),
              y0 + RoundDiv((y1 - y0) * (k - 1), numSegments)>>]

\* Array.prototype.slice(1)
Slice1(points) == IF Len(points) = 0 THEN <<>> ELSE Tail(points)

_appendSampledLine(s, x0, y0, x1, y1, samplesPerUnit) ==
    LET points == _sampleLine(x0, y0, x1, y1, samplesPerUnit)
    IN IF Len(s.currentPolyline) > 0
       THEN [s EXCEPT !.currentPolyline = @ \o Slice1(points)]
       ELSE [s EXCEPT !.currentPolyline = @ \o points]

_resetControlPoints(s) ==
    [s EXCEPT !.lastControlX = Undefined, !.lastControlY = Undefined,
              !.lastQuadraticControlX = Undefined, !.lastQuadraticControlY = Undefined]

_sampleCubicBezier(x0, y0, x1, y1, x2, y2, x3, y3, samplesPerUnit) ==
    LET numSegments ==
            Max(4, CeilLengthTimes(<<SquaredLength(x0, y0, x1, y1), SquaredLength(x1, y1, x2, y2),
                                     SquaredLength(x2, y2, x3, y3)>>, samplesPerUnit))
        n3 == numSegments * numSegments * numSegments
        At(a0, a1, a2, a3, i) ==
            LET m == numSegments - i
            IN RoundDiv(m * m * m * a0 + 3 * m * m * i * a1 + 3 * m * i * i * a2 + i * i * i * a3, n3)
    IN [k \in 1..(numSegments + 1) |-> <<At(x0, x1, x2, x3, k - 1), At(y0, y1, y2, y3, k - 1)>>]

_sampleQuadraticBezier(x0, y0, x1, y1, x2, y2, samplesPerUnit) ==
    LET numSegments ==
            Max(4, CeilLengthTimes(<<SquaredLength(x0, y0, x1, y1), SquaredLength(x1, y1, x2, y2)>>,
                                   samplesPerUnit))
        At(a0, a1, a2, i) ==
            LET m == numSegments - i
            IN RoundDiv(m * m * a0 + 2 * m * i * a1 + i * i * a2, numSegments * numSegments)
    IN [k \in 1..(numSegments + 1) |-> <<At(x0, x1, x2, k - 1), At(y0, y1, y2, k - 1)>>]

\* Cosine and sine, times 1, of a whole number of quarter turns.
QuarterCos(q) == CASE q % 4 = 0 -> 1 [] q % 4 = 1 -> 0 [] q % 4 = 2 -> -1 [] q % 4 = 3 -> 0
QuarterSin(q) == CASE q % 4 = 0 -> 0 [] q % 4 = 1 -> 1 [] q % 4 = 2 -> 0 [] q % 4 = 3 -> -1

\* _sampleEllipticalArc for the arcs used here: a radius of 0, which gives
\* the straight line, and half circles (rx = ry = half the distance of the
\* end points, no axis rotation, end points on a horizontal or a vertical
\* line) short enough to be sampled in two steps of a quarter turn.  For
\* these the centre is the midpoint, theta1 is the direction from the centre
\* to the start, and dTheta is a half turn, forward when sweepFlag is set
\* and backward when it is not.
_sampleEllipticalArc(x1, y1, rx, ry, xAxisRotation, largeArcFlag, sweepFlag, x2, y2, samplesPerUnit) ==
    IF rx = 0 \/ ry = 0 THEN <<<<x1, y1>>, <<x2, y2>>>>
    ELSE LET r == Abs(rx)
             cx == (x1 + x2) \div 2
             cy == (y1 + y2) \div 2
             theta1 == CASE x1 - cx = r /\ y1 = cy -> 0
                         [] x1 = cx /\ y1 - cy = r -> 1
                         [] cx - x1 = r /\ y1 = cy -> 2
                         [] x1 = cx /\ cy - y1 = r -> 3
             dTheta == IF sweepFlag # 0 THEN 2 ELSE -2
             \* Math.ceil(Math.PI * r * samplesPerUnit), PI as 355/113
             numSamples == Max(2, (355 * r * samplesPerUnit + 113 * PathQ - 1) \div (113 * PathQ))
             Angle(i) == CASE numSamples = 2 -> theta1 + 4 + i * (dTheta \div 2)
         IN [k \in 1..(numSamples + 1) |->
                <<r * QuarterCos(Angle(k - 1)) + cx, r * QuarterSin(Angle(k - 1)) + cy>>]

\* The state object of _samplePath.
NewPathState ==
    [currentX |-> 0, currentY |-> 0, startX |-> 0, startY |-> 0,
     lastControlX |-> Undefined, lastControlY |-> Undefined,
     lastQuadraticControlX |-> Undefined, lastQuadraticControlY |-> Undefined,
     currentPolyline |-> <<>>, allPolylines |-> <<>>]

\* if (state.currentPolyline.length > 1) state.allPolylines.push(state.currentPolyline)
Committed(s) ==
    IF Len(s.currentPolyline) > 1
    THEN [s EXCEPT !.allPolylines = Append(@, s.currentPolyline)]
    ELSE s

\* The loops of the handlers below run over the argument groups that start
\* at args[i] (counted from 1); rel tells the relative handler from the
\* absolute one.
RECURSIVE LineToLoop(_, _, _, _, _)
LineToLoop(args, s, i, rel, samplesPerUnit) ==
    IF i > Len(args) THEN s
    ELSE LET nextX == IF rel THEN s.currentX + args[i] ELSE args[i]
             nextY == IF rel THEN s.currentY + args[i + 1] ELSE args[i + 1]
             drawn == _appendSampledLine(s, s.currentX, s.currentY, nextX, nextY, samplesPerUnit)
         IN LineToLoop(args, [drawn EXCEPT !.currentX = nextX, !.currentY = nextY],
                       i + 2, rel, samplesPerUnit)

MoveTo(args, state, rel, samplesPerUnit) ==
    LET begun == [Committed(state) EXCEPT !.currentPolyline = <<>>]
        x == IF rel THEN begun.currentX + args[1] ELSE args[1]
        y == IF rel THEN begun.currentY + args[2] ELSE args[2]
        moved == IF Len(args) >= 2
                 THEN [begun EXCEPT !.currentX = x, !.currentY = y, !.startX = x, !.startY = y,
                                    !.currentPolyline = <<<<x, y>>>>]
                 ELSE begun
    IN _resetControlPoints(LineToLoop(args, moved, 3, rel, samplesPerUnit))

_handleMoveTo(args, state, samplesPerUnit) == MoveTo(args, state, FALSE, samplesPerUnit)
_handleMoveToRel(args, state, samplesPerUnit) == MoveTo(args, state, TRUE, samplesPerUnit)

_handleLineTo(args, state, samplesPerUnit) ==
    _resetControlPoints(LineToLoop(args, state, 1, FALSE, samplesPerUnit))
_handleLineToRel(args, state, samplesPerUnit) ==
    _resetControlPoints(LineToLoop(args, state, 1, TRUE, samplesPerUnit))

RECURSIVE HorizontalLoop(_, _, _, _, _)
HorizontalLoop(args, s, i, rel, samplesPerUnit) ==
    IF i > Len(args) THEN s
    ELSE LET nextX == IF rel THEN s.currentX + args[i] ELSE args[i]
             nextY == s.currentY
             drawn == _appendSampledLine(s, s.currentX, s.currentY, nextX, nextY, samplesPerUnit)
         IN HorizontalLoop(args, [drawn EXCEPT !.currentX = nextX], i + 1, rel, samplesPerUnit)

_handleHorizontal(args, state, samplesPerUnit) ==
    _resetControlPoints(HorizontalLoop(args, state, 1, FALSE, samplesPerUnit))
_handleHorizontalRel(args, state, samplesPerUnit) ==
    _resetControlPoints(HorizontalLoop(args, state, 1, TRUE, samplesPerUnit))

RECURSIVE VerticalLoop(_, _, _, _, _)
VerticalLoop(args, s, i, rel, samplesPerUnit) ==
    IF i > Len(args) THEN s
    ELSE LET nextX == s.currentX
             nextY == IF rel THEN s.currentY + args[i] ELSE args[i]
             drawn == _appendSampledLine(s, s.currentX, s.currentY, nextX, nextY, samplesPerUnit)
         IN VerticalLoop(args, [drawn EXCEPT !.currentY = nextY], i + 1, rel, samplesPerUnit)

_handleVertical(args, state, samplesPerUnit) ==
    _resetControlPoints(VerticalLoop(args, state, 1, FALSE, samplesPerUnit))
_handleVerticalRel(args, state, samplesPerUnit) ==
    _resetControlPoints(VerticalLoop(args, state, 1, TRUE, samplesPerUnit))

\* state.lastQuadraticControlX = undefined; state.lastQuadraticControlY = undefined
QuadraticCleared(s) ==
    [s EXCEPT !.lastQuadraticControlX = Undefined, !.lastQuadraticControlY = Undefined]

\* state.lastControlX = undefined; state.lastControlY = undefined
CubicCleared(s) == [s EXCEPT !.lastControlX = Undefined, !.lastControlY = Undefined]

RECURSIVE CubicLoop(_, _, _, _, _)
CubicLoop(args, s, i, rel, samplesPerUnit) ==
    IF i > Len(args) THEN s
    ELSE LET ox == IF rel THEN s.currentX ELSE 0
             oy == IF rel THEN s.currentY ELSE 0
             bezier == _sampleCubicBezier(s.currentX, s.currentY,
                                          ox + args[i], oy + args[i + 1],
                                          ox + args[i + 2], oy + args[i + 3],
                                          ox + args[i + 4], oy + args[i + 5], samplesPerUnit)
         IN CubicLoop(args,
                      [s EXCEPT !.currentPolyline = @ \o Slice1(bezier),
                                !.lastControlX = NumV(ox + args[i + 2]),
                                !.lastControlY = NumV(oy + args[i + 3]),
                                !.currentX = ox + args[i + 4],
                                !.currentY = oy + args[i + 5]],
                      i + 6, rel, samplesPerUnit)

_handleCubicBezier(args, state, samplesPerUnit) ==
    QuadraticCleared(CubicLoop(args, state, 1, FALSE, samplesPerUnit))
_handleCubicBezierRel(args, state, samplesPerUnit) ==
    QuadraticCleared(CubicLoop(args, state, 1, TRUE, samplesPerUnit))

\* The first control point of a smooth curve, never mirrored.
FirstControlAtCurrent(s, trackerX, trackerY) == <<s.currentX, s.currentY>>

\* The first control point of a smooth curve: the tracked control point
\* mirrored at the current point, or the current point without one.
FirstControl(s, trackerX, trackerY) ==
    IF trackerX # Undefined /\ trackerY # Undefined
    THEN <<2 * s.currentX - trackerX.v, 2 * s.currentY - trackerY.v>>
    ELSE <<s.currentX, s.currentY>>

RECURSIVE SmoothCubicLoop(_, _, _, _, _)
SmoothCubicLoop(args, s, i, rel, samplesPerUnit) ==
    IF i > Len(args) THEN s
    ELSE LET ox == IF rel THEN s.currentX ELSE 0
             oy == IF rel THEN s.currentY ELSE 0
             c1 == FirstControl(s, s.lastControlX, s.lastControlY)
             bezier == _sampleCubicBezier(s.currentX, s.currentY, c1[1], c1[2],
                                          ox + args[i], oy + args[i + 1],
                                          ox + args[i + 2], oy + args[i + 3], samplesPerUnit)
         IN SmoothCubicLoop(args,
                            [s EXCEPT !.currentPolyline = @ \o Slice1(bezier),
                                      !.lastControlX = NumV(ox + args[i]),
                                      !.lastControlY = NumV(oy + args[i + 1]),
                                      !.currentX = ox + args[i + 2],
                                      !.currentY = oy + args[i + 3]],
                            i + 4, rel, samplesPerUnit)

_handleSmoothCubic(args, state, samplesPerUnit) ==
    QuadraticCleared(SmoothCubicLoop(args, state, 1, FALSE, samplesPerUnit))
_handleSmoothCubicRel(args, state, samplesPerUnit) ==
    QuadraticCleared(SmoothCubicLoop(args, state, 1, TRUE, samplesPerUnit))

RECURSIVE QuadraticLoop(_, _, _, _, _)
QuadraticLoop(args, s, i, rel, samplesPerUnit) ==
    IF i > Len(args) THEN s
    ELSE LET ox == IF rel THEN s.currentX ELSE 0
             oy == IF rel THEN s.currentY ELSE 0
             cx == ox + args[i]
             cy == oy + args[i + 1]
             ex == ox + args[i + 2]
             ey == oy + args[i + 3]
             bezier == _sampleQuadraticBezier(s.currentX, s.currentY, cx, cy, ex, ey, samplesPerUnit)
         IN QuadraticLoop(args,
                          [s EXCEPT !.currentPolyline = @ \o Slice1(bezier),
                                    !.lastQuadraticControlX = NumV(cx),
                                    !.lastQuadraticControlY = NumV(cy),
                                    !.currentX = ex, !.currentY = ey],
                          i + 4, rel, samplesPerUnit)

_handleQuadraticBezier(args, state, samplesPerUnit) ==
    CubicCleared(QuadraticLoop(args, state, 1, FALSE, samplesPerUnit))
_handleQuadraticBezierRel(args, state, samplesPerUnit) ==
    CubicCleared(QuadraticLoop(args, state, 1, TRUE, samplesPerUnit))

RECURSIVE SmoothQuadraticLoop(_, _, _, _, _)
SmoothQuadraticLoop(args, s, i, rel, samplesPerUnit) ==
    IF i > Len(args) THEN s
    ELSE LET c == FirstControl(s, s.lastQuadraticControlX, s.lastQuadraticControlY)
             ex == IF rel THEN s.currentX + args[i] ELSE args[i]
             ey == IF rel THEN s.currentY + args[i + 1] ELSE args[i + 1]
             bezier == _sampleQuadraticBezier(s.currentX, s.currentY, c[1], c[2], ex, ey, samplesPerUnit)
         IN SmoothQuadraticLoop(args,
                                [s EXCEPT !.currentPolyline = @ \o Slice1(bezier),
                                          !.lastQuadraticControlX = NumV(c[1]),
                                          !.lastQuadraticControlY = NumV(c[2]),
                                          !.currentX = ex, !.currentY = ey],
                                i + 2, rel, samplesPerUnit)

_handleSmoothQuadratic(args, state, samplesPerUnit) ==
    CubicCleared(SmoothQuadraticLoop(args, state, 1, FALSE, samplesPerUnit))
_handleSmoothQuadraticRel(args, state, samplesPerUnit) ==
    CubicCleared(SmoothQuadraticLoop(args, state, 1, TRUE, samplesPerUnit))

RECURSIVE ArcLoop(_, _, _, _, _)
ArcLoop(args, s, i, rel, samplesPerUnit) ==
    IF i > Len(args) THEN s
    ELSE LET ex == IF rel THEN s.currentX + args[i + 5] ELSE args[i + 5]
             ey == IF rel THEN s.currentY + args[i + 6] ELSE args[i + 6]
             arc == _sampleEllipticalArc(s.currentX, s.currentY, args[i], args[i + 1], args[i + 2],
                                         args[i + 3], args[i + 4], ex, ey, samplesPerUnit)
         IN ArcLoop(args,
                    [s EXCEPT !.currentPolyline = @ \o Slice1(arc), !.currentX = ex, !.currentY = ey],
                    i + 7, rel, samplesPerUnit)

_handleArc(args, state, samplesPerUnit) ==
    _resetControlPoints(ArcLoop(args, state, 1, FALSE, samplesPerUnit))
_handleArcRel(args, state, samplesPerUnit) ==
    _resetControlPoints(ArcLoop(args, state, 1, TRUE, samplesPerUnit))

NeedsCloseLineAlways(state) == Len(state.currentPolyline) > 0

\* needsCloseLine: distance > CLOSE_THRESHOLD, both sides squared; false for
\* an empty polyline in progress.
NeedsCloseLine(state) ==
    LET n == Len(state.currentPolyline)
        lastPoint == state.currentPolyline[n]
    IN /\ n > 0
       /\ SquaredLength(lastPoint[1], lastPoint[2], state.startX, state.startY)
            > CLOSE_THRESHOLD * CLOSE_THRESHOLD

_handleClose(args, state, samplesPerUnit) ==
    LET closed == IF NeedsCloseLine(state)
                  THEN [state EXCEPT !.currentPolyline = Append(@, <<state.startX, state.startY>>)]
                  ELSE state
    IN _resetControlPoints([Committed(closed) EXCEPT !.currentPolyline = <<>>,
                                                     !.currentX = state.startX,
                                                     !.currentY = state.startY])

\* _getCommandHandler and the call of the handler; a letter without handler
\* changes nothing.
_processPathCommand(command, args, state, samplesPerUnit) ==
    CASE command = "M" -> _handleMoveTo(args, state, samplesPerUnit)
      [] command = "m" -> _handleMoveToRel(args, state, samplesPerUnit)
      [] command = "L" -> _handleLineTo(args, state, samplesPerUnit)
      [] command = "l" -> _handleLineToRel(args, state, samplesPerUnit)
      [] command = "H" -> _handleHorizontal(args, state, samplesPerUnit)
      [] command = "h" -> _handleHorizontalRel(args, state, samplesPerUnit)
      [] command = "V" -> _handleVertical(args, state, samplesPerUnit)
      [] command = "v" -> _handleVerticalRel(args, state, samplesPerUnit)
      [] command = "C" -> _handleCubicBezier(args, state, samplesPerUnit)
      [] command = "c" -> _handleCubicBezierRel(args, state, samplesPerUnit)
      [] command = "S" -> _handleSmoothCubic(args, state, samplesPerUnit)
      [] command = "s" -> _handleSmoothCubicRel(args, state, samplesPerUnit)
      [] command = "Q" -> _handleQuadraticBezier(args, state, samplesPerUnit)
      [] command = "q" -> _handleQuadraticBezierRel(args, state, samplesPerUnit)
      [] command = "T" -> _handleSmoothQuadratic(args, state, samplesPerUnit)
      [] command = "t" -> _handleSmoothQuadraticRel(args, state, samplesPerUnit)
      [] command = "A" -> _handleArc(args, state, samplesPerUnit)
      [] command = "a" -> _handleArcRel(args, state, samplesPerUnit)
      [] command \in {"Z", "z"} -> _handleClose(args, state, samplesPerUnit)
      [] OTHER -> state

\* _removeSelfOverlaps returns its argument.
_removeSelfOverlaps(pls) == pls

\* ---- the path data sampled
MaxPathCommands == 3

\* A command letter with the numbers up to the next letter.
Cmd(letter, args) == [cmd |-> letter, args |-> args]

\* Every letter with complete groups of arguments: moves (one with an
\* implicit line), lines of length 0 and longer, curves whose control
\* polygons have sides of whole length, arcs of radius 0 and half circles.
PathCommands ==
    {Cmd("M", <<0, 0>>), Cmd("M", <<Units(1), Units(1), Units(1), Units(2)>>),
     Cmd("m", <<Units(2), 0>>),
     Cmd("L", <<0, 0>>), Cmd("L", <<Units(2), 0, Units(2), Units(1)>>),
     Cmd("l", <<0, 0>>), Cmd("l", <<0, Units(1)>>),
     Cmd("H", <<Units(2)>>), Cmd("h", <<0>>),
     Cmd("V", <<Units(1)>>), Cmd("v", <<Units(-1)>>),
     Cmd("C", <<0, Units(1), Units(2), Units(1), Units(2), 0>>),
     Cmd("c", <<Units(1), 0, Units(1), Units(1), Units(2), Units(1)>>),
     Cmd("S", <<Units(2), Units(2), 0, Units(2)>>),
     Cmd("s", <<0, Units(1), Units(1), Units(1)>>),
     Cmd("Q", <<Units(1), Units(1), Units(2), 0>>),
     Cmd("q", <<Units(1), 0, Units(1), Units(1)>>),
     Cmd("T", <<Units(2), Units(2)>>),
     Cmd("t", <<Units(1), 0>>),
     Cmd("A", <<0, 0, 0, 0, 1, Units(1), Units(1)>>),
     Cmd("a", <<PathQ \div 4, PathQ \div 4, 0, 0, 1, PathQ \div 2, 0>>),
     Cmd("a", <<PathQ \div 4, PathQ \div 4, 0, 1, 0, 0, PathQ \div 2>>),
     Cmd("Z", <<>>), Cmd("z", <<>>)}

InitPath ==
    /\ OthersIdleForSvg
    /\ ExtIdle
    /\ TfIdle
    /\ XfIdle
    /\ MgrIdle
    /\ AppIdle
    /\ pathD = <<>>
    /\ pathState = NewPathState
    /\ pathBefore = NewPathState
    /\ pathPc = "sampling"
    /\ pathResult = <<>>

\* The loop over the tokens: the next command of d with its arguments.
ProcessPathCommand ==
    /\ pathPc = "sampling"
    /\ Len(pathD) < MaxPathCommands
    /\ \E c \in PathCommands :
        /\ pathD' = Append(pathD, c)
        /\ pathState' = _processPathCommand(c.cmd, c.args, pathState, QUALITY_SAMPLE_RATE)
    /\ pathBefore' = pathState
    /\ UNCHANGED <<pathPc, pathResult, optVars, valVars, genVars, tfVars, extVars, xfVars, mgrVars, appVars>>

\* The end of d: the polyline in progress is saved and the polylines are
\* returned.
EndOfPath ==
    /\ pathPc = "sampling"
    /\ pathResult' = _removeSelfOverlaps(Committed(pathState).allPolylines)
    /\ pathPc' = "done"
    /\ UNCHANGED <<pathD, pathState, pathBefore, optVars, valVars, genVars, tfVars, extVars, xfVars, mgrVars, appVars>>

NextPath == ProcessPathCommand \/ EndOfPath

SpecPath == InitPath /\ [][NextPath]_vars



(***************************************************************************)
(* SVGProcessor._getTransformMatrix(element) and _applyTransform           *)
(*                                                                         *)
(* An element is given with its ancestors as the chain of their transform  *)
(* attributes, the element's own first and the root's last.  An attribute  *)
(* is null or the sub-commands the pattern /[a-zA-Z]+\([^\)]+\)/g finds in *)
(* it, each with its name and the numbers parseFloat reads from its        *)
(* arguments.  Numbers are whole; angles are multiples of 90 degrees, for  *)
(* which the cosine and the sine are taken as exact.                       *)
(***************************************************************************)
IdentityMatrix == [a |-> 1, b |-> 0, c |-> 0, d |-> 1, e |-> 0, f |-> 0]

multiply(m1, m2) ==
    [a |-> m1.a * m2.a + m1.c * m2.b,
     b |-> m1.b * m2.a + m1.d * m2.b,
     c |-> m1.a * m2.c + m1.c * m2.d,
     d |-> m1.b * m2.c + m1.d * m2.d,
     e |-> m1.a * m2.e + m1.c * m2.f + m1.e,
     f |-> m1.b * m2.e + m1.d * m2.f + m1.f]

\* Math.cos and Math.sin of an angle in degrees, a multiple of 90.
CosDegrees(angle) ==
    CASE angle % 360 = 0 -> 1
      [] angle % 360 = 90 -> 0
      [] angle % 360 = 180 -> -1
      [] angle % 360 = 270 -> 0

SinDegrees(angle) ==
    CASE angle % 360 = 0 -> 0
      [] angle % 360 = 90 -> 1
      [] angle % 360 = 180 -> 0
      [] angle % 360 = 270 -> -1

\* argsStr.split(/[,\s]+/).map(parseFloat).filter(n => !isNaN(n)), from the
\* values parseFloat gave: the numbers among them.
ParsedArgs(values) ==
    LET nums == SelectSeq(values, LAMBDA val : val.t = "num")
    IN  [k \in 1..Len(nums) |-> nums[k].v]

\* args[k] || whenFalsy, with k counted from 0 as in the code.
ArgOr(args, k, whenFalsy) ==
    IF k + 1 <= Len(args) /\ args[k + 1] # 0 THEN args[k + 1] ELSE whenFalsy

\* args[k] !== undefined ? args[k] : whenMissing
ArgOrMissing(args, k, whenMissing) ==
    IF k + 1 <= Len(args) THEN args[k + 1] ELSE whenMissing

Translation(tx, ty) == [a |-> 1, b |-> 0, c |-> 0, d |-> 1, e |-> tx, f |-> ty]

Rotation(cos, sin) == [a |-> cos, b |-> sin, c |-> -sin, d |-> cos, e |-> 0, f |-> 0]

\* The switch over the sub-command's name: the matrix t of one sub-command.
SubCommandMatrix(type, args) ==
    CASE type = "translate" ->
            Translation(ArgOr(args, 0, 0), ArgOr(args, 1, 0))
      [] type = "scale" ->
            LET sx == ArgOrMissing(args, 0, 1)
                sy == ArgOrMissing(args, 1, sx)
            IN  [a |-> sx, b |-> 0, c |-> 0, d |-> sy, e |-> 0, f |-> 0]
      [] type = "rotate" ->
            LET angle == ArgOr(args, 0, 0)
                cos == CosDegrees(angle)
                sin == SinDegrees(angle)
            IN  IF Len(args) >= 3
                THEN multiply(multiply(Translation(args[2], args[3]),
                                       Rotation(cos, sin)),
                              Translation(-args[2], -args[3]))
                ELSE Rotation(cos, sin)
      [] type = "matrix" ->
            IF Len(args) = 6
            THEN [a |-> args[1], b |-> args[2], c |-> args[3],
                  d |-> args[4], e |-> args[5], f |-> args[6]]
            ELSE IdentityMatrix
      [] OTHER -> IdentityMatrix

\* for (const cmd of commands) { ... m = multiply(m, t); } from command k on.
RECURSIVE ParseLoop(_, _, _)
ParseLoop(commands, k, m) ==
    IF k > Len(commands) THEN m
    ELSE ParseLoop(commands, k + 1,
                   multiply(m, SubCommandMatrix(commands[k].type,
                                                ParsedArgs(commands[k].args))))

\* parseTransform(transformStr): null without an attribute and when the
\* pattern finds no sub-command in it.
parseTransform(attribute) ==
    IF attribute.t = "null" THEN Null
    ELSE IF Len(attribute.v) = 0 THEN Null
    ELSE ParseLoop(attribute.v, 1, IdentityMatrix)

\* The matrix after the loop has seen an element whose attribute gave
\* tMatrix: matrix = multiply(tMatrix, matrix).
AccumulateElementLast(tMatrix, matrix) == multiply(matrix, tMatrix)

Accumulate(tMatrix, matrix) == multiply(tMatrix, matrix)

\* One round of while (current && current.getAttribute).
WalkStep(attribute, matrix) ==
    LET tMatrix == parseTransform(attribute)
    IN  IF tMatrix # Null THEN Accumulate(tMatrix, matrix) ELSE matrix

RECURSIVE WalkFrom(_, _, _)
WalkFrom(chain, current, matrix) ==
    IF current > Len(chain) THEN matrix
    ELSE WalkFrom(chain, current + 1, WalkStep(chain[current], matrix))

_getTransformMatrix(chain) == WalkFrom(chain, 1, IdentityMatrix)

_applyTransform(polyline, matrix) ==
    [k \in 1..Len(polyline) |->
        <<matrix.a * polyline[k][1] + matrix.c * polyline[k][2] + matrix.e,
          matrix.b * polyline[k][1] + matrix.d * polyline[k][2] + matrix.f>>]

\* The sub-commands an attribute is written from, how many of them the
\* element's own attribute has at most, and how many ancestors it has.
MaxSubCommands == 2
MaxAncestors == 1

SubCommand(type, values) == [type |-> type, args |-> values]

Attribute(commands) == [t |-> "string", v |-> commands]

SubCommands ==
    { SubCommand("translate", <<NumV(10), NumV(0)>>),
      SubCommand("rotate", <<NumV(90)>>),
      SubCommand("rotate", <<NumV(180), NumV(1), NumV(2)>>),
      SubCommand("scale", <<NumV(2), NaN>>),
      SubCommand("matrix", <<NumV(1), NumV(2), NumV(3), NumV(4), NumV(5), NumV(6)>>),
      SubCommand("matrix", <<NumV(2), NumV(0), NumV(0), NumV(2)>>),
      SubCommand("skewX", <<NumV(90)>>) }

OwnAttributes ==
    {Null} \cup
    UNION {{Attribute(cs) : cs \in [1..n -> SubCommands]} : n \in 0..MaxSubCommands}

AncestorAttributes ==
    { Null,
      Attribute(<<SubCommand("translate", <<NumV(0), NumV(5)>>)>>),
      Attribute(<<SubCommand("scale", <<NumV(2), NumV(3)>>),
                  SubCommand("rotate", <<NumV(270)>>)>>),
      Attribute(<<SubCommand("skewY", <<NumV(90)>>)>>) }

TransformedPolylines == { <<<<1, 0>>, <<0, 0>>, <<0, 1>>>>, <<<<2, 3>>, <<1, 0>>>> }

InitTf ==
    /\ OthersIdleForSvg
    /\ ExtIdle
    /\ XfIdle
    /\ MgrIdle
    /\ AppIdle
    /\ PathIdle
    /\ \E own \in OwnAttributes :
       \E n \in 0..MaxAncestors :
       \E ancestors \in [1..n -> AncestorAttributes] :
           tfChain = <<own>> \o ancestors
    /\ tfPolyline \in TransformedPolylines
    /\ tfCurrent = 1
    /\ tfMatrix = IdentityMatrix
    /\ tfPc = "walking"
    /\ tfResult = <<>>

\* The loop's body for the current element; current becomes its parent.
VisitElement ==
    /\ tfPc = "walking"
    /\ tfCurrent <= Len(tfChain)
    /\ tfMatrix' = WalkStep(tfChain[tfCurrent], tfMatrix)
    /\ tfCurrent' = tfCurrent + 1
    /\ UNCHANGED <<tfChain, tfPolyline, tfPc, tfResult,
                   optVars, valVars, genVars, extVars, xfVars, mgrVars, appVars, pathVars>>

\* Above the root current is null: the matrix is returned and applied.
ApplyTransform ==
    /\ tfPc = "walking"
    /\ tfCurrent > Len(tfChain)
    /\ tfResult' = _applyTransform(tfPolyline, tfMatrix)
    /\ tfPc' = "done"
    /\ UNCHANGED <<tfChain, tfPolyline, tfCurrent, tfMatrix,
                   optVars, valVars, genVars, extVars, xfVars, mgrVars, appVars, pathVars>>

NextTf == VisitElement \/ ApplyTransform

SpecTf == InitTf /\ [][NextTf]_vars

(***************************************************************************)
(* ExclusionZonesManager (docs/js/app.js) and Preview3D.checkCollisions    *)
(*                                                                         *)
(* Lengths are in units of 1/Den mm, as in the generator.  zones is the    *)
(* Map in insertion order.                                                 *)
(***************************************************************************)
NewExclusionZonesManager == [zones |-> <<>>, nextId |-> 1]

\* `zone_${n}`
ZoneId(n) == Str(<<"z", "o", "n", "e", "_">> \o NatToString(n))

\* name || `Zone ${this.nextId - 1}`, after the increment of nextId
ZoneName(name, n) ==
    IF Falsy(name) \/ name = Str(<<>>) THEN Str(<<"Z", "o", "n", "e", " ">> \o NatToString(n))
    ELSE name

addZone(m, x, y, width, height, name) ==
    LET id == ZoneId(m.nextId)
        zone == [id |-> id, name |-> ZoneName(name, m.nextId), x |-> x, y |-> y,
                 width |-> width, height |-> height, enabled |-> TRUE]
    IN [zones |-> MapSet(m.zones, id, zone), nextId |-> m.nextId + 1]

removeZone(m, id) == [m EXCEPT !.zones = MapDelete(m.zones, id)]

updateZone(m, id, x, y, width, height) ==
    IF MapHas(m.zones, id)
    THEN [m EXCEPT !.zones[MapIndex(m.zones, id)] =
                        [@ EXCEPT !.x = x, !.y = y, !.width = width, !.height = height]]
    ELSE m

toggleZone(m, id) ==
    IF MapHas(m.zones, id)
    THEN [m EXCEPT !.zones[MapIndex(m.zones, id)].enabled = ~@]
    ELSE m

\* ExclusionZonesManager._isPointInZone and Preview3D._isPointInZone
_isPointInZone(x, y, zone) ==
    /\ x >= zone.x
    /\ x <= zone.x + zone.width
    /\ y >= zone.y
    /\ y <= zone.y + zone.height

\* if (!zone.enabled) continue
Skipped(zone) == ~zone.enabled

isPointInAnyZone(m, x, y) ==
    \E k \in 1..Len(m.zones) : ~Skipped(m.zones[k]) /\ _isPointInZone(x, y, m.zones[k])

\* Array.from(this.zones.values())
getZones(m) == m.zones

\* A field of a settings object, undefined when the object has none of
\* that name.
Field(settings, name) == IF name \in DOMAIN settings THEN settings[name] ELSE Undefined

\* parseFloat(v) || fallback, for a number or undefined
ParsedOr(val, fallback) == IF Falsy(val) THEN fallback ELSE val.v

\* The points of the polylines, each with the indices of its polyline and
\* of itself, in the order of the two forEach loops.
RECURSIVE IndexedPoints(_, _)
IndexedPoints(pls, i) ==
    IF i > Len(pls) THEN <<>>
    ELSE [j \in 1..Len(pls[i].v) |-> [point |-> pls[i].v[j], polyIdx |-> i, pointIdx |-> j]]
         \o IndexedPoints(pls, i + 1)

\* x < 0 || y < 0 || x > bedWidth || y > bedHeight
OutOfBounds(x, y, bedWidth, bedHeight) == x < 0 \/ y < 0 \/ x > bedWidth \/ y > bedHeight

\* zoneCollisionPoints: one entry for every zone of the list the point is in.
RECURSIVE ZoneCollisionPoints(_, _, _, _)
ZoneCollisionPoints(points, k, offset, zones) ==
    IF k > Len(points) THEN <<>>
    ELSE LET x == points[k].point[1] + offset[1]
             y == points[k].point[2] + offset[2]
         IN [z \in 1..Cardinality({n \in 1..Len(zones) : _isPointInZone(x, y, zones[n])}) |->
                [x |-> x, y |-> y, polyIdx |-> points[k].polyIdx, pointIdx |-> points[k].pointIdx]]
            \o ZoneCollisionPoints(points, k + 1, offset, zones)

RECURSIVE OutOfBoundsPoints(_, _, _, _, _)
OutOfBoundsPoints(points, k, offset, bedWidth, bedHeight) ==
    IF k > Len(points) THEN <<>>
    ELSE LET x == points[k].point[1] + offset[1]
             y == points[k].point[2] + offset[2]
         IN (IF OutOfBounds(x, y, bedWidth, bedHeight)
             THEN <<[x |-> x, y |-> y, polyIdx |-> points[k].polyIdx,
                     pointIdx |-> points[k].pointIdx]>>
             ELSE <<>>)
            \o OutOfBoundsPoints(points, k + 1, offset, bedWidth, bedHeight)

\* Preview3D.checkCollisions(polylines, settings, exclusionZones); the
\* markers are display only.
checkCollisions(pls, settings, zones) ==
    LET bedWidth == ParsedOr(Field(settings, "bedWidth"), Num(256))
        bedHeight == ParsedOr(Field(settings, "bedHeight"), Num(256))
        offsetX == ParsedOr(Field(settings, "penOffsetX"), 0)
        offsetY == ParsedOr(Field(settings, "penOffsetY"), 0)
        points == IndexedPoints(pls, 1)
        outOfBoundsPoints == OutOfBoundsPoints(points, 1, <<offsetX, offsetY>>, bedWidth, bedHeight)
        zoneCollisionPoints == ZoneCollisionPoints(points, 1, <<offsetX, offsetY>>, zones)
    IN [hasCollisions |-> Len(outOfBoundsPoints) > 0 \/ Len(zoneCollisionPoints) > 0,
        outOfBounds |-> Len(outOfBoundsPoints),
        zoneCollisions |-> Len(zoneCollisionPoints),
        total |-> Len(outOfBoundsPoints) + Len(zoneCollisionPoints)]

\* App._getSafetyWarnings(polylines, settings): the counts its message
\* shows, or the message about NaN.  bedWidth and bedHeight are read from
\* the same controls as the settings.
_getSafetyWarnings(pls, settings, zonesManager) ==
    LET offsetX == settings.penOffset.v[1]
        offsetY == settings.penOffset.v[2]
        points == IndexedPoints(pls, 1)
        IsOutside(p) == OutOfBounds(p.point[1] + offsetX.v, p.point[2] + offsetY.v,
                                    settings.bedWidth.v, settings.bedHeight.v)
        IsHit(p) == isPointInAnyZone(zonesManager, p.point[1] + offsetX.v, p.point[2] + offsetY.v)
    IN IF points /= <<>> /\ (offsetX.t = "nan" \/ offsetY.t = "nan")
       THEN [t |-> "nan", outOfBoundsPoints |-> 0, zoneHits |-> 0]
       ELSE [t |-> "counts",
             outOfBoundsPoints |-> Cardinality({k \in 1..Len(points) : IsOutside(points[k])}),
             zoneHits |-> Cardinality({k \in 1..Len(points) : IsHit(points[k])})]

(***************************************************************************)
(* The App's two checks of the points against the bed, and generate        *)
(***************************************************************************)
MaxSafetyPolylines == 2

SfPoint(x, y) == <<Num(x), Num(y)>>

\* Polylines on a bed of 100 x 50: inside, on the corners, left of the bed,
\* right of and above it.
SfPolylineKinds ==
    {Arr(<<SfPoint(1, 1), SfPoint(99, 49)>>), Arr(<<SfPoint(0, 0), SfPoint(100, 50)>>),
     Arr(<<SfPoint(-1, 1), SfPoint(1, 1)>>), Arr(<<SfPoint(101, 10), SfPoint(50, 51)>>)}

SfPenOffsets ==
    {Arr(<<NumV(0), NumV(0), NumV(0)>>), Arr(<<NumV(Num(2)), NumV(0), NumV(0)>>),
     Arr(<<NumV(0), NumV(Num(-3)), NumV(Milli(500))>>)}

\* _getSettings(): what parseFloat reads from the controls, and the two
\* template texts (empty).
_getSettings(penOffset) ==
    [bedWidth |-> NumV(Num(100)), bedHeight |-> NumV(Num(50)),
     penUpZ |-> NumV(DEFAULT_PEN_UP_Z), sheetHeight |-> NumV(DEFAULT_SHEET_HEIGHT),
     feedRate |-> NumV(DEFAULT_FEED_RATE), travelFeedRate |-> NumV(DEFAULT_TRAVEL_FEED_RATE),
     penOffset |-> penOffset,
     headerTemplate |-> Str(<<>>), footerTemplate |-> Str(<<>>)]

InitSf ==
    /\ OptIdle /\ ValIdle /\ GenIdle
    /\ XfIdle /\ MgrIdle /\ AppIdle /\ PathIdle /\ TfIdle
    /\ HistIdle /\ UndoIdle /\ ChkIdle /\ ZoneIdle /\ RestIdle
    /\ sfPolylines \in SeqsOf(SfPolylineKinds, 1, MaxSafetyPolylines)
    /\ \E penOffset \in SfPenOffsets : sfSettings = _getSettings(penOffset)
    /\ sfEmitted = <<>>
    /\ sfWarnings = <<>>
    /\ sfCollisions = <<>>
    /\ sfDone = {}

SfFrame ==
    UNCHANGED <<optVars, valVars, genVars, xfVars, mgrVars, appVars, pathVars, tfVars,
                histVars, undoVars, chkVars, zoneVars, restVars>>

\* The export handler: generate, then _getSafetyWarnings on the same
\* polylines and settings.
GenerateClicked ==
    /\ "generate" \notin sfDone
    /\ sfEmitted' = GcodeParts(sfPolylines, sfSettings, Timestamp).body
    /\ sfWarnings' = _getSafetyWarnings(sfPolylines, sfSettings, NewExclusionZonesManager)
    /\ sfDone' = sfDone \cup {"generate"}
    /\ UNCHANGED <<sfPolylines, sfSettings, sfCollisions>>
    /\ SfFrame

\* _checkCollisions: checkCollisions on the polylines with the settings of
\* _getSettings.
CollisionsChecked ==
    /\ "collisions" \notin sfDone
    /\ sfCollisions' = checkCollisions(sfPolylines, sfSettings, <<>>)
    /\ sfDone' = sfDone \cup {"collisions"}
    /\ UNCHANGED <<sfPolylines, sfSettings, sfEmitted, sfWarnings>>
    /\ SfFrame

NextSf == GenerateClicked \/ CollisionsChecked

SpecSf == InitSf /\ [][NextSf]_vars


(***************************************************************************)
(* The calls made on an ExclusionZonesManager                              *)
(***************************************************************************)
MaxZoneAdds == 2

Rect(x, y, width, height) == [x |-> Num(x), y |-> Num(y), width |-> Num(width), height |-> Num(height)]

\* Two rectangles that touch in the corner (30, 20).
ZoneRects == {Rect(10, 10, 20, 10), Rect(30, 20, 5, 5)}

ZoneNames == {Str(<<>>), Str(<<"c", "l", "i", "p">>)}

ZoneIdArguments == {ZoneId(n) : n \in 1..(MaxZoneAdds + 1)}

InitZones ==
    /\ OptIdle /\ ValIdle /\ GenIdle
    /\ XfIdle /\ MgrIdle /\ AppIdle /\ PathIdle /\ TfIdle
    /\ HistIdle /\ UndoIdle /\ ChkIdle /\ SfIdle /\ RestIdle
    /\ exclusionZones = NewExclusionZonesManager
    /\ zoneCall = Called("new", Null)

ZoneFrame ==
    UNCHANGED <<optVars, valVars, genVars, xfVars, mgrVars, appVars, pathVars, tfVars,
                histVars, undoVars, chkVars, sfVars, restVars>>

AddZone ==
    /\ exclusionZones.nextId <= MaxZoneAdds
    /\ \E r \in ZoneRects, name \in ZoneNames :
        exclusionZones' = addZone(exclusionZones, r.x, r.y, r.width, r.height, name)
    /\ zoneCall' = Called("addZone", ZoneId(exclusionZones.nextId))
    /\ ZoneFrame

RemoveZone ==
    /\ \E id \in ZoneIdArguments :
        /\ exclusionZones' = removeZone(exclusionZones, id)
        /\ zoneCall' = Called("removeZone", id)
    /\ ZoneFrame

UpdateZone ==
    /\ \E id \in ZoneIdArguments, r \in ZoneRects :
        /\ exclusionZones' = updateZone(exclusionZones, id, r.x, r.y, r.width, r.height)
        /\ zoneCall' = Called("updateZone", id)
    /\ ZoneFrame

ToggleZone ==
    /\ \E id \in ZoneIdArguments :
        /\ exclusionZones' = toggleZone(exclusionZones, id)
        /\ zoneCall' = Called("toggleZone", id)
    /\ ZoneFrame

NextZones == AddZone \/ RemoveZone \/ UpdateZone \/ ToggleZone

SpecZones == InitZones /\ [][NextZones]_vars


(***************************************************************************)
(* SVGManager (src/js): addSVG and getTransformedPolylines                 *)
(*                                                                         *)
(* In units of 1/SvgQ, as the docs/js manager above.                       *)
(***************************************************************************)
SRC_DEFAULT_ROTATION == 0

\* new SVGManager()
SrcNewSVGManager ==
    [svgObjects |-> <<>>, selectedId |-> Null, bedWidth |-> MGR_DEFAULT_BED_SIZE,
     bedHeight |-> MGR_DEFAULT_BED_SIZE, nextId |-> 1]

\* addSVG of src/js: the translation is the bed's centre less the scaled
\* centre of the original bounds.
SrcAddSVG(m, filename, pls, originalBounds, initialScale, metadata) ==
    LET id == SvgId(m.nextId)
        svgCenterX == (originalBounds.minX + originalBounds.maxX) \div 2
        svgCenterY == (originalBounds.minY + originalBounds.maxY) \div 2
        mmScale == MmScale([metadata |-> metadata])
        svgCenterXMM == Times(svgCenterX, mmScale)
        svgCenterYMM == Times(svgCenterY, mmScale)
        initialX == Times(m.bedWidth, BED_CENTER_FACTOR) - Times(svgCenterXMM, initialScale)
        initialY == Times(m.bedHeight, BED_CENTER_FACTOR) - Times(svgCenterYMM, initialScale)
        svgObject == [id |-> id, filename |-> filename, polylines |-> pls,
                      originalBounds |-> originalBounds,
                      centerViewBox |-> Arr(<<svgCenterX, svgCenterY>>),
                      translation |-> <<initialX, initialY>>,
                      scale |-> initialScale, rotation |-> SRC_DEFAULT_ROTATION,
                      visible |-> TRUE, metadata |-> metadata]
    IN [m EXCEPT !.nextId = m.nextId + 1,
                 !.svgObjects = MapSet(m.svgObjects, id, svgObject),
                 !.selectedId = id]

\* getTransformedPolylines of src/js: the scaled and rotated points are
\* shifted so that their least x and y come to lie on the translation.
SrcGetTransformedPolylines(svg) ==
    LET Rotated(p) == ScaleAndRotate(p, svg)
        transformed == MapPoints(svg.polylines, Rotated)
        bounds == BoundsOf(PointsOf(transformed))
        minX == bounds[1]
        minY == bounds[2]
        Placed(p) == <<p[1] - minX + svg.translation[1], p[2] - minY + svg.translation[2]>>
    IN MapPoints(transformed, Placed)

\* ---- the drawings added
\* The first drawing starts in the origin of its view box, the second has
\* its least x there, the others lie off the origin on either side.
CtrDrawings ==
    {<< <<<<0, 0>>, <<Whole(8), 0>>, <<Whole(8), Whole(4)>>>> >>,
     << <<<<0, Whole(4)>>, <<Whole(8), Whole(12)>>>> >>,
     << <<<<Whole(4), Whole(8)>>, <<Whole(12), Whole(8)>>, <<Whole(12), Whole(16)>>>> >>,
     << <<<<Whole(-8), 0>>, <<0, Whole(4)>>>>, <<<<0, Whole(-4)>>, <<Whole(4), 0>>>> >>}

CtrMetadata == {NoMetadata, Metadata(ScaleFactor(NumV(Whole(2)))), Metadata(ScaleFactor(NumV(Half(1))))}

CtrScales == {Whole(1), Half(1), Whole(2)}

CtrBeds == {<<MGR_DEFAULT_BED_SIZE, MGR_DEFAULT_BED_SIZE>>, <<Whole(100), Whole(50)>>}

\* The bounds the parser hands over with a drawing: the box of its points.
OriginalBoundsOf(pls) ==
    LET b == BoundsOf(PointsOf(pls)) IN Bounds(b[1], b[2], b[3], b[4])

InitCtr ==
    /\ OptIdle /\ ValIdle /\ GenIdle
    /\ XfIdle /\ MgrIdle /\ AppIdle /\ PathIdle /\ TfIdle
    /\ HistIdle /\ UndoIdle /\ ChkIdle /\ SfIdle /\ ZoneIdle
    /\ ProjIdle /\ DlgIdle
    /\ \E pls \in CtrDrawings, metadata \in CtrMetadata, initialScale \in CtrScales :
        ctrInput = [polylines |-> pls, originalBounds |-> OriginalBoundsOf(pls),
                    initialScale |-> initialScale, metadata |-> metadata]
    /\ \E bed \in CtrBeds : ctrManager = setBedSize(SrcNewSVGManager, bed[1], bed[2])
    /\ ctrResult = <<>>
    /\ ctrPc = "add"

CtrFrame ==
    UNCHANGED <<optVars, valVars, genVars, xfVars, mgrVars, appVars, pathVars, tfVars,
                histVars, undoVars, chkVars, sfVars, zoneVars, projVars, dlgVars>>

CtrAddSVG ==
    /\ ctrPc = "add"
    /\ ctrManager' = SrcAddSVG(ctrManager, Str(<<"a">>), ctrInput.polylines,
                               ctrInput.originalBounds, ctrInput.initialScale,
                               ctrInput.metadata)
    /\ ctrPc' = "transform"
    /\ UNCHANGED <<ctrInput, ctrResult>>
    /\ CtrFrame

CtrGetTransformedPolylines ==
    /\ ctrPc = "transform"
    /\ ctrResult' = SrcGetTransformedPolylines(ctrManager.svgObjects[Len(ctrManager.svgObjects)])
    /\ ctrPc' = "done"
    /\ UNCHANGED <<ctrInput, ctrManager>>
    /\ CtrFrame

NextCtr == CtrAddSVG \/ CtrGetTransformedPolylines

SpecCtr == InitCtr /\ [][NextCtr]_vars


(***************************************************************************)
(* ProjectManager (src/js) and App._applyProjectData                       *)
(***************************************************************************)

\* exclusionZones.getAllZones(): the zones of the manager as a list.  No
\* file of src/ defines the method, called here and in _checkCollisions;
\* it is taken to be the list accessor of the manager, getZones.
getAllZones(zonesManager) == getZones(zonesManager)

\* The fields createProject copies from one drawing.
SavedSvg(svg) ==
    [id |-> svg.id, filename |-> svg.filename, polylines |-> svg.polylines,
     originalBounds |-> svg.originalBounds, centerViewBox |-> svg.centerViewBox,
     translation |-> svg.translation, scale |-> svg.scale, rotation |-> svg.rotation,
     visible |-> svg.visible, metadata |-> svg.metadata]

createProject(svgMgr, zonesManager, name) ==
    [version |-> <<"1", ".", "0", ".", "0">>,
     name |-> name,
     svgs |-> [k \in 1..Len(svgMgr.svgObjects) |-> SavedSvg(svgMgr.svgObjects[k])],
     exclusionZones |-> getAllZones(zonesManager)]

\* One drawing of the project added again, then given its saved
\* translation, rotation and visible flag.
Restored(m, svg, withDocsManager) ==
    LET added == IF withDocsManager
                 THEN addSVG(m, svg.filename, svg.polylines, svg.originalBounds, svg.scale,
                             svg.metadata)
                 ELSE SrcAddSVG(m, svg.filename, svg.polylines, svg.originalBounds, svg.scale,
                                svg.metadata)
        k == Len(added.svgObjects)
    IN [added EXCEPT !.svgObjects[k].translation = svg.translation,
                     !.svgObjects[k].rotation = svg.rotation,
                     !.svgObjects[k].visible = svg.visible]

RECURSIVE RestoredSvgs(_, _, _, _)
RestoredSvgs(m, svgs, k, withDocsManager) ==
    IF k > Len(svgs) THEN m
    ELSE RestoredSvgs(Restored(m, svgs[k], withDocsManager), svgs, k + 1, withDocsManager)

\* projectData.exclusionZones?.forEach(zone =>
\*     this.exclusionZones.addZone(zone.name, zone.x, zone.y, zone.width, zone.height))
RECURSIVE RestoredZones(_, _, _)
RestoredZones(m, zones, k) ==
    IF k > Len(zones) THEN m
    ELSE RestoredZones(addZone(m, zones[k].name, zones[k].x, zones[k].y, zones[k].width,
                               zones[k].height),
                       zones, k + 1)

\* applyProject, its two clear callbacks emptying the two collections.
applyProject(svgMgr, zonesManager, projectData) ==
    [svgManager |-> RestoredSvgs([svgMgr EXCEPT !.svgObjects = <<>>], projectData.svgs, 1, FALSE),
     exclusionZones |-> RestoredZones([zonesManager EXCEPT !.zones = <<>>],
                                      projectData.exclusionZones, 1),
     threw |-> FALSE]

\* App._applyProjectData.  It replaces the Map of zones by an array, on
\* which the zones.set of addZone throws: with a zone in the project the
\* handler ends there, after the increment of nextId and before any
\* drawing is restored.
_applyProjectData(svgMgr, zonesManager, projectData) ==
    LET cleared == [svgMgr EXCEPT !.svgObjects = <<>>, !.nextId = 1]
        emptied == [zonesManager EXCEPT !.zones = <<>>]
    IN IF projectData.exclusionZones /= <<>>
       THEN [svgManager |-> cleared,
             exclusionZones |-> [emptied EXCEPT !.nextId = @ + 1],
             threw |-> TRUE]
       ELSE [svgManager |-> RestoredSvgs(cleared, projectData.svgs, 1, TRUE),
             exclusionZones |-> emptied,
             threw |-> FALSE]

\* ---- the project worked on
MaxProjSvgs == 2
MaxProjZones == 2

ProjDrawings ==
    {<< <<<<0, 0>>, <<Whole(8), 0>>, <<Whole(8), Whole(4)>>>> >>,
     << <<<<Whole(4), Whole(8)>>, <<Whole(12), Whole(8)>>>>, <<<<0, Whole(4)>>>> >>}

ProjName == <<"p">>

InitProj ==
    /\ OptIdle /\ ValIdle /\ GenIdle
    /\ XfIdle /\ MgrIdle /\ AppIdle /\ PathIdle /\ TfIdle
    /\ HistIdle /\ UndoIdle /\ ChkIdle /\ SfIdle /\ ZoneIdle
    /\ CtrIdle /\ DlgIdle
    /\ projSvgManager = SrcNewSVGManager
    /\ projZones = NewExclusionZonesManager
    /\ projThrew = FALSE
    /\ projData = <<>>
    /\ projPc = "edit"

ProjFrame ==
    UNCHANGED <<optVars, valVars, genVars, xfVars, mgrVars, appVars, pathVars, tfVars,
                histVars, undoVars, chkVars, sfVars, zoneVars, ctrVars, dlgVars>>

ProjAddSVG ==
    /\ projPc = "edit"
    /\ projSvgManager.nextId <= MaxProjSvgs
    /\ \E pls \in ProjDrawings :
        projSvgManager' = SrcAddSVG(projSvgManager, Str(<<"a">>), pls, OriginalBoundsOf(pls),
                                    Whole(1), NoMetadata)
    /\ UNCHANGED <<projZones, projThrew, projData, projPc>>
    /\ ProjFrame

ProjUpdateTransformation ==
    /\ projPc = "edit"
    /\ \E k \in 1..Len(projSvgManager.svgObjects) :
        projSvgManager' = updateTransformation(projSvgManager, projSvgManager.svgObjects[k].id,
                                               <<Whole(10), Whole(20)>>, Half(1), 90)
    /\ UNCHANGED <<projZones, projThrew, projData, projPc>>
    /\ ProjFrame

ProjToggleVisibility ==
    /\ projPc = "edit"
    /\ \E k \in 1..Len(projSvgManager.svgObjects) :
        projSvgManager' = toggleVisibility(projSvgManager, projSvgManager.svgObjects[k].id)
    /\ UNCHANGED <<projZones, projThrew, projData, projPc>>
    /\ ProjFrame

\* App._addZone: addZone(x, y, width, height, name)
ProjAddZone ==
    /\ projPc = "edit"
    /\ projZones.nextId <= MaxProjZones
    /\ \E r \in ZoneRects, name \in ZoneNames :
        projZones' = addZone(projZones, NumV(r.x), NumV(r.y), NumV(r.width), NumV(r.height), name)
    /\ UNCHANGED <<projSvgManager, projThrew, projData, projPc>>
    /\ ProjFrame

CreateProject ==
    /\ projPc = "edit"
    /\ projData' = createProject(projSvgManager, projZones, ProjName)
    /\ projPc' = "created"
    /\ UNCHANGED <<projSvgManager, projZones, projThrew>>
    /\ ProjFrame

ApplyProject ==
    /\ projPc = "created"
    /\ LET applied == applyProject(projSvgManager, projZones, projData)
       IN /\ projSvgManager' = applied.svgManager
          /\ projZones' = applied.exclusionZones
          /\ projThrew' = applied.threw
    /\ projPc' = "applied"
    /\ UNCHANGED projData
    /\ ProjFrame

ApplyProjectData ==
    /\ projPc = "created"
    /\ LET applied == _applyProjectData(projSvgManager, projZones, projData)
       IN /\ projSvgManager' = applied.svgManager
          /\ projZones' = applied.exclusionZones
          /\ projThrew' = applied.threw
    /\ projPc' = "appliedByApp"
    /\ UNCHANGED projData
    /\ ProjFrame

NextProj ==
    \/ ProjAddSVG \/ ProjUpdateTransformation \/ ProjToggleVisibility \/ ProjAddZone
    \/ CreateProject \/ ApplyProject \/ ApplyProjectData

SpecProj == InitProj /\ [][NextProj]_vars


(***************************************************************************)
(* ImageImportDialog: the debounced preview and the Import/Cancel clicks   *)
(***************************************************************************)
DEBOUNCE_DELAY == 500

\* ImageToSVGConverter._toBinary: one bit per pixel
_toBinary(imageData, threshold, invert) ==
    [i \in 1..Len(imageData) |->
        LET isBlack == imageData[i].a > 128 /\ imageData[i].brightness < threshold
        IN IF (IF invert THEN ~isBlack ELSE isBlack) THEN 1 ELSE 0]

\* ImageToSVGConverter.convertToSVG.  The markup is made of the contours of
\* the binary image, simplified with the tolerance; it is held here as the
\* two it is computed from.
convertToSVG(image, options) ==
    [binary |-> _toBinary(image, options.threshold, options.invert),
     tolerance |-> options.simplify]

\* new ImageImportDialog(file)
NewImageImportDialog ==
    [pc |-> "new", threshold |-> 128, simplify |-> 1, invert |-> FALSE,
     svgString |-> Null, scaledImage |-> Null, updateTimer |-> "null",
     conversions |-> <<>>, resolved |-> <<>>, alert |-> <<>>, afterClose |-> {}]

\* The first lines of _runConversion, up to its await of 50 ms.
ConversionStarted(d) ==
    [d EXCEPT !.conversions = Append(@, [stage |-> "delay", svgString |-> Null])]

\* _scheduleUpdate: a timer under way is cleared, a new one is set.
_scheduleUpdate(d) == [d EXCEPT !.updateTimer = "pending"]

\* _cleanup: the timer is cleared, the dialog leaves the document, the
\* canvases and the images are dropped.
_cleanup(d) ==
    [d EXCEPT !.updateTimer = IF @ = "pending" THEN "cleared" ELSE @,
              !.pc = "closed",
              !.scaledImage = Null]

\* this._resolve(value), if there is a _resolve
Resolved(d, value) == [d EXCEPT !.resolved = Append(@, value)]

_handleCancel(d) == Resolved(_cleanup(d), Null)

_handleImport(d) ==
    IF d.svgString = Null
    THEN [d EXCEPT !.alert = <<"No SVG generated yet">>]
    ELSE Resolved(_cleanup(d), d.svgString)

\* _runConversion after its await of 50 ms: the conversion of the scaled
\* image under the parameters of this moment.  Without an image
\* convertToSVG throws on image.width, and the catch reports it.
ConversionResumed(d, i) ==
    IF d.scaledImage = Null
    THEN [d EXCEPT !.conversions = RemoveAt(@, i),
                   !.alert = <<"Conversion failed">>,
                   !.afterClose = @ \cup {"conversion", "error"}]
    ELSE LET svgString == convertToSVG(d.scaledImage,
                                       [threshold |-> d.threshold, simplify |-> d.simplify,
                                        invert |-> d.invert])
         IN [d EXCEPT !.svgString = svgString,
                      !.conversions[i] = [stage |-> "render", svgString |-> svgString]]

\* The onload of _renderPreview; _runConversion ends with it.  With the
\* canvas gone onload throws and the promise stays pending.
PreviewLoaded(d, i) ==
    [d EXCEPT !.conversions = RemoveAt(@, i),
              !.afterClose = IF d.pc = "closed" THEN @ \cup {"preview"} ELSE @]

\* ---- the dialog at work
MaxConversions == 2

\* The pixels of the scaled image: brightness and alpha.
DlgImage ==
    <<[brightness |-> 100, a |-> 255], [brightness |-> 200, a |-> 255],
      [brightness |-> 30, a |-> 0]>>

Thresholds == {128, 64}
Simplifies == {1, 2}

InitDlg ==
    /\ OptIdle /\ ValIdle /\ GenIdle
    /\ XfIdle /\ MgrIdle /\ AppIdle /\ PathIdle /\ TfIdle
    /\ HistIdle /\ UndoIdle /\ ChkIdle /\ SfIdle /\ ZoneIdle
    /\ ProjIdle /\ CtrIdle
    /\ dialog = NewImageImportDialog

DlgFrame ==
    UNCHANGED <<optVars, valVars, genVars, xfVars, mgrVars, appVars, pathVars, tfVars,
                histVars, undoVars, chkVars, sfVars, zoneVars, projVars, ctrVars>>

\* show(): the image is loaded, the dialog created and the first
\* conversion started.
Show ==
    /\ dialog.pc = "new"
    /\ dialog' = ConversionStarted([dialog EXCEPT !.pc = "open", !.scaledImage = DlgImage])
    /\ DlgFrame

\* show(): _loadImage rejected.
ShowFailed ==
    /\ dialog.pc = "new"
    /\ dialog' = Resolved(_cleanup([dialog EXCEPT !.alert = <<"Failed to load image">>]), Null)
    /\ DlgFrame

ThresholdInput ==
    /\ dialog.pc = "open"
    /\ \E value \in Thresholds : dialog' = _scheduleUpdate([dialog EXCEPT !.threshold = value])
    /\ DlgFrame

SimplifyInput ==
    /\ dialog.pc = "open"
    /\ \E value \in Simplifies : dialog' = _scheduleUpdate([dialog EXCEPT !.simplify = value])
    /\ DlgFrame

InvertChanged ==
    /\ dialog.pc = "open"
    /\ dialog' = _scheduleUpdate([dialog EXCEPT !.invert = ~@])
    /\ DlgFrame

\* The debounce timer runs out.
TimerFired ==
    /\ dialog /= <<>>
    /\ dialog.updateTimer = "pending"
    /\ Len(dialog.conversions) < MaxConversions
    /\ dialog' = ConversionStarted([dialog EXCEPT !.updateTimer = "fired"])
    /\ DlgFrame

DelayElapsed ==
    /\ dialog /= <<>>
    /\ \E i \in 1..Len(dialog.conversions) :
        /\ dialog.conversions[i].stage = "delay"
        /\ dialog' = ConversionResumed(dialog, i)
    /\ DlgFrame

PreviewRendered ==
    /\ dialog /= <<>>
    /\ \E i \in 1..Len(dialog.conversions) :
        /\ dialog.conversions[i].stage = "render"
        /\ dialog' = PreviewLoaded(dialog, i)
    /\ DlgFrame

ImportClicked ==
    /\ dialog.pc = "open"
    /\ dialog' = _handleImport(dialog)
    /\ DlgFrame

CancelClicked ==
    /\ dialog.pc = "open"
    /\ dialog' = _handleCancel(dialog)
    /\ DlgFrame

NextDlg ==
    \/ Show \/ ShowFailed \/ ThresholdInput \/ SimplifyInput \/ InvertChanged
    \/ TimerFired \/ DelayElapsed \/ PreviewRendered \/ ImportClicked \/ CancelClicked

SpecDlg == InitDlg /\ [][NextDlg]_vars


(***************************************************************************)
(* Properties of GCodeValidator.validate                                   *)
(***************************************************************************)
ValDone == valPc = "done"

\* How many findings of the list are of one of the kinds (on line lineNum,
\* or on any line when lineNum is 0).
CountFindings(findings, kinds, lineNum) ==
    Cardinality({k \in 1..Len(findings) :
                    /\ findings[k].kind \in kinds
                    /\ lineNum = 0 \/ findings[k].line = lineNum})

\* What a written line says.
SaysCommand(l, word) == ToUpperStr(l.cmd) = word
SaysMove(l) == SaysCommand(l, <<"G", "0">>) \/ SaysCommand(l, <<"G", "1">>)
HasParam(l, letter) ==
    \E k \in 1..Len(l.params) : ToUpper(l.params[k].letter) = letter
ParamValue(l, letter) ==
    l.params[CHOOSE k \in 1..Len(l.params) :
                ToUpper(l.params[k].letter) = letter].v
IsCommentOrBlank(l) == l.cmd = <<>>

\* The bed the settings describe.
BedWidthOf(settings) ==
    IF settings.bedWidth = Undefined THEN Num(256) ELSE settings.bedWidth.v
BedHeightOf(settings) ==
    IF settings.bedHeight = Undefined THEN Num(256) ELSE settings.bedHeight.v

\* C9: valid is true exactly when there is no error, whatever the warnings;
\* the missing-home (missing-absolute) warning is there exactly once when no
\* line of the document gives the command G28 (G90), and not at all when
\* some line does, wherever that line is.
C9_ValidIffNoErrorsAndSetupWarnings ==
    ValDone =>
        /\ valResult.valid <=> Len(valResult.errors) = 0
        /\ CountFindings(valResult.warnings, {"missing_g28"}, 0)
              = (IF \E i \in 1..Len(valDoc) : SaysCommand(valDoc[i], <<"G", "2", "8">>)
                 THEN 0 ELSE 1)
        /\ CountFindings(valResult.warnings, {"missing_g90"}, 0)
              = (IF \E i \in 1..Len(valDoc) : SaysCommand(valDoc[i], <<"G", "9", "0">>)
                 THEN 0 ELSE 1)
        /\ CountFindings(valResult.errors, {"missing_g28", "missing_g90"}, 0) = 0

\* A valid document with warnings of several kinds, whose G90 is not on the
\* first line and whose G28 is missing.
C9_ValidWithWarnings ==
    /\ ValDone
    /\ valResult.valid
    /\ Len(valDoc) >= 2
    /\ ~SaysCommand(valDoc[1], <<"G", "9", "0">>)
    /\ SaysCommand(valDoc[2], <<"G", "9", "0">>)
    /\ CountFindings(valResult.warnings, {"missing_g28"}, 0) = 1
    /\ CountFindings(valResult.warnings, {"missing_g90"}, 0) = 0
    /\ CountFindings(valResult.warnings,
                     {"uncommon_command", "z_high", "f_high", "f_low"}, 0) = 1

\* The document with every comment taken out, line for line.
WithoutComments(doc) == [i \in 1..Len(doc) |-> [doc[i] EXCEPT !.comment = <<>>]]

\* C10: on every G0/G1 line each axis parameter out of range (X < 0,
\* X > bedWidth, Y < 0, Y > bedHeight, Z < 0) gives exactly one error and
\* each one in range (0, bedWidth and bedHeight included) none; comment
\* lines and blank lines give no finding, and the findings are the same
\* with every comment taken out.
C10_AxisErrorsAndComments ==
    ValDone =>
        /\ \A i \in 1..Len(valDoc) :
              LET l == valDoc[i]
                  xOut == /\ SaysMove(l) /\ HasParam(l, "X")
                          /\ \/ ParamValue(l, "X") < 0
                             \/ ParamValue(l, "X") > BedWidthOf(valSettings)
                  yOut == /\ SaysMove(l) /\ HasParam(l, "Y")
                          /\ \/ ParamValue(l, "Y") < 0
                             \/ ParamValue(l, "Y") > BedHeightOf(valSettings)
                  zOut == SaysMove(l) /\ HasParam(l, "Z") /\ ParamValue(l, "Z") < 0
              IN  /\ CountFindings(valResult.errors,
                                   {"x_negative", "x_exceeds_bed"}, i)
                        = (IF xOut THEN 1 ELSE 0)
                  /\ CountFindings(valResult.errors,
                                   {"y_negative", "y_exceeds_bed"}, i)
                        = (IF yOut THEN 1 ELSE 0)
                  /\ CountFindings(valResult.errors, {"z_negative"}, i)
                        = (IF zOut THEN 1 ELSE 0)
                  /\ IsCommentOrBlank(l) =>
                        \A k \in 1..Len(valResult.errors) :
                            valResult.errors[k].line # i
                  /\ IsCommentOrBlank(l) =>
                        \A k \in 1..Len(valResult.warnings) :
                            valResult.warnings[k].line # i
        /\ LET bare == validate(RenderDoc(WithoutComments(valDoc)), valSettings)
           IN  /\ bare.errors = valResult.errors
               /\ bare.warnings = valResult.warnings

\* A move on the edge of the bed (no error) before a move with X, Y and Z
\* all out of range (three errors), under the default bed.
C10_BoundaryAndThreeErrors ==
    /\ ValDone
    /\ Len(valDoc) = 2
    /\ valSettings.bedWidth = Undefined
    /\ SaysMove(valDoc[1]) /\ HasParam(valDoc[1], "X")
    /\ ParamValue(valDoc[1], "X") = Num(256)
    /\ CountFindings(valResult.errors,
                     {"x_negative", "x_exceeds_bed", "y_negative",
                      "y_exceeds_bed", "z_negative"}, 1) = 0
    /\ CountFindings(valResult.errors,
                     {"x_negative", "x_exceeds_bed", "y_negative",
                      "y_exceeds_bed", "z_negative"}, 2) = 3

\* The feed rate limit the settings describe.
MaxFeedRateOf(settings) ==
    IF settings.maxFeedRate = Undefined THEN Num(15000)
    ELSE settings.maxFeedRate.v

\* The findings about the feed rate on line i: errors, low-speed warnings,
\* high-speed warnings.
FeedErrors(i) == CountFindings(valResult.errors, {"f_not_positive"}, i)
FeedLows(i) == CountFindings(valResult.warnings, {"f_low"}, i)
FeedHighs(i) == CountFindings(valResult.warnings, {"f_high"}, i)

\* C11: on every G0/G1 line with a feed rate F, F <= 0 gives an error and an
\* invalid document, 0 < F < 100 exactly one low-speed warning,
\* F > maxFeedRate exactly one high-speed warning, and 100 <= F <= maxFeedRate
\* no finding about the feed rate.
C11_FeedRateFindings ==
    ValDone =>
        \A i \in 1..Len(valDoc) :
            SaysMove(valDoc[i]) /\ HasParam(valDoc[i], "F") =>
                LET f == ParamValue(valDoc[i], "F")
                    maxF == MaxFeedRateOf(valSettings)
                IN  /\ f <= 0 => FeedErrors(i) = 1 /\ ~valResult.valid
                    /\ f > 0 => FeedErrors(i) = 0
                    /\ FeedLows(i) = (IF 0 < f /\ f < Num(100) THEN 1 ELSE 0)
                    /\ FeedHighs(i) = (IF f > maxF THEN 1 ELSE 0)

\* The same with a negative F giving no finding at all: the feed rate is
\* read without its sign, and a sign right behind the F hides the number.
C11_NegativeFeedRateUnseen ==
    ValDone =>
        \A i \in 1..Len(valDoc) :
            SaysMove(valDoc[i]) /\ HasParam(valDoc[i], "F") =>
                LET f == ParamValue(valDoc[i], "F")
                    maxF == MaxFeedRateOf(valSettings)
                IN  /\ FeedErrors(i) = (IF f = 0 THEN 1 ELSE 0)
                    /\ f = 0 => ~valResult.valid
                    /\ FeedLows(i) = (IF 0 < f /\ f < Num(100) THEN 1 ELSE 0)
                    /\ FeedHighs(i) = (IF f > maxF THEN 1 ELSE 0)

(***************************************************************************)
(* Properties of PathOptimizer.optimize                                    *)
(***************************************************************************)
Perms(n) == {f \in [1..n -> 1..n] : \A i, j \in 1..n : i # j => f[i] # f[j]}

\* out holds each polyline of in exactly once, as it was or point-reversed.
IsReorderingOf(out, in) ==
    /\ Len(out) = Len(in)
    /\ \E f \in Perms(Len(in)) :
          \A i \in 1..Len(in) : out[i] = in[f[i]] \/ out[i] = Reverse(in[f[i]])

OptDone == optPc = "done"

\* C1: optimize returns plain polylines, a list of 0 or 1 polylines
\* unchanged, and otherwise each input polyline exactly once, unchanged or
\* with its points reversed, for both values of use2Opt.
C1_OptimizeReturnsReorderedPolylines ==
    OptDone =>
        /\ optResult.of = "polylines"
        /\ Len(polylines) <= 1 => optResult.list = polylines
        /\ IsReorderingOf(optResult.list, polylines)

\* What optimize does return when it is asked for 2-opt on two or more
\* polylines: the segment records, with no polyline reversed.
C1_TwoOptReturnsSegmentRecords ==
    OptDone /\ use2Opt /\ Len(polylines) >= 2 =>
        /\ optResult.of = "segments"
        /\ \A i \in 1..Len(optResult.list) :
              optResult.list[i].polyline = polylines[optResult.list[i].index + 1]

\* Without 2-opt the claim of C1 holds.
C1_GreedyReturnsReorderedPolylines ==
    OptDone /\ ~use2Opt =>
        /\ optResult.of = "polylines"
        /\ Len(polylines) <= 1 => optResult.list = polylines
        /\ IsReorderingOf(optResult.list, polylines)

GreedyDone == OptDone /\ ~use2Opt /\ Len(polylines) >= 2

\* Every polyline is a drawable stroke (at least 2 points), which is what
\* calculateStats counts.
AllDrawable(pls) == \A i \in 1..Len(pls) : Len(pls[i]) >= 2

\* C2 as stated: the greedy order's total travel is at most the total
\* travel of the input order (here for drawable strokes only, which
\* calculateStats does not skip).
C2_GreedyTravelAtMostOriginal ==
    GreedyDone /\ AllDrawable(polylines) =>
        calculateStats(optResult.list, startPoint).totalTravel
            <= calculateStats(polylines, startPoint).totalTravel

\* Where the pen is before the k-th stroke of out is drawn.
PenBefore(out, k, sp) == IF k = 1 THEN sp ELSE out[k - 1][Len(out[k - 1])]

\* C2 amended: every pen-up move of the greedy order is at most the
\* distance from the pen's position to either end of every stroke that the
\* order places later, and the first move is at most the first move of the
\* input order.
C2_GreedyMovesAreNearest ==
    GreedyDone =>
        LET out == optResult.list
        IN  /\ \A k \in 1..Len(out) : \A j \in k..Len(out) :
                  LET pen == PenBefore(out, k, startPoint)
                      move == _distance(pen, out[k][1])
                  IN  /\ move <= _distance(pen, out[j][1])
                      /\ move <= _distance(pen, out[j][Len(out[j])])
            /\ _distance(startPoint, out[1][1])
                  <= _distance(startPoint, polylines[1][1])

\* The greedy order travels farther than the input order did.
C2_GreedyWorseThanOriginal ==
    /\ GreedyDone
    /\ AllDrawable(polylines)
    /\ calculateStats(optResult.list, startPoint).totalTravel
          > calculateStats(polylines, startPoint).totalTravel

(***************************************************************************)
(* Properties of GCodeGenerator.generate and _expandTemplate               *)
(***************************************************************************)
GenDone == genPc = "done" /\ genCall = "generate"
ExpandDone == genPc = "done" /\ genCall = "expand"

\* The lines of the text generate returned.
OutLines == Split(genResult, "\n")

\* Reading a line of G-code: the code before the comment, its words, the
\* command word, the parameter letters in order, the text behind a letter.
NonEmpty(w) == w # <<>>
CodeOf(line) == SubSeq(line, 1, PieceEnd(line, ";", 1) - 1)
WordsOf(line) == SelectSeq(Split(CodeOf(line), " "), NonEmpty)
CommandOf(line) == IF WordsOf(line) = <<>> THEN <<>> ELSE WordsOf(line)[1]
LettersOf(line) ==
    LET w == WordsOf(line) IN [k \in 1..(Len(w) - 1) |-> w[k + 1][1]]
HasField(line, letter) ==
    LET w == WordsOf(line) IN \E k \in 2..Len(w) : w[k][1] = letter
FieldOf(line, letter) ==
    LET w == WordsOf(line)
        k == CHOOSE j \in 2..Len(w) :
                /\ w[j][1] = letter
                /\ \A h \in 2..(j - 1) : w[h][1] # letter
    IN  Tail(w[k])
FieldValue(line, letter) == parseFloat(FieldOf(line, letter))
IsMotion(line) == CommandOf(line) \in {<<"G", "0">>, <<"G", "1">>}

\* What the settings ask for: a finite number as given, anything else as
\* the documented default.
Given(val, documented) == IF val.t = "num" THEN val.v ELSE documented
AskedPenUpZ == Given(genSettings.penUpZ, Milli(600))
AskedSheetHeight == Given(genSettings.sheetHeight, Milli(150))
AskedBedWidth == Given(genSettings.bedWidth, Num(256))
AskedBedHeight == Given(genSettings.bedHeight, Num(256))
AskedFeedRate == Given(genSettings.feedRate, Num(3000))
AskedTravelFeedRate == Given(genSettings.travelFeedRate, Num(9000))
AskedOffset(i) ==
    LET po == genSettings.penOffset
    IN  IF po.t = "array" /\ Len(po.v) = 3 THEN Given(po.v[i], 0) ELSE 0
AskedUpZ == AskedPenUpZ - AskedOffset(3)
AskedDownZ == AskedSheetHeight - AskedOffset(3)

\* An emitted length stands for an exact one: equal to three decimals.
Near(emitted, exact) == 2 * Abs(emitted - exact) <= Milli(1)

\* The polylines that are to be drawn, and where the lines of each begin:
\* a drawn polyline of n points takes n + 5 lines (its title, the travel,
\* pen down, n - 1 strokes, pen up, the progress line, a blank line).
HasTwoPoints(pl) == pl.t = "array" /\ Len(pl.v) >= 2
DrawnIndices == {i \in 1..Len(genPolylines) : HasTwoPoints(genPolylines[i])}
RECURSIVE LinesUpTo(_)
LinesUpTo(i) ==
    IF i = 0 THEN 0
    ELSE LinesUpTo(i - 1)
         + (IF i \in DrawnIndices THEN Len(genPolylines[i].v) + 5 ELSE 0)
TitleLine(i) == genHeaderEnd + LinesUpTo(i - 1) + 1
BodyRange == (genHeaderEnd + 1)..genBodyEnd

\* The last line of the body before line k that sets Z (0 if there is none).
LastZBefore(L, k) ==
    LET zs == {j \in (genHeaderEnd + 1)..(k - 1) : HasField(L[j], "Z")}
    IN  IF zs = {} THEN 0 ELSE CHOOSE j \in zs : \A h \in zs : h <= j

\* C3: the body holds, for the polylines of at least two points in input
\* order and for nothing else, a title, one G0 X Y Z F travel at nozzleUpZ
\* with the travel feed rate, one G0 Z F to nozzleDownZ, one G1 X Y F per
\* further point at the drawing feed rate, one G0 Z F to nozzleUpZ, the
\* progress line and a blank line; every G0 with X/Y finds the pen up and
\* every G1 finds it down.
C3_BodyIsTravelDownStrokesUp ==
    GenDone =>
        LET L == OutLines
            IsTravel(line) ==
                /\ CommandOf(line) = <<"G", "0">>
                /\ LettersOf(line) = <<"X", "Y", "Z", "F">>
                /\ Near(FieldValue(line, "Z"), AskedUpZ)
                /\ FieldValue(line, "F") = AskedTravelFeedRate
            IsPenMove(line, z) ==
                /\ CommandOf(line) = <<"G", "0">>
                /\ LettersOf(line) = <<"Z", "F">>
                /\ Near(FieldValue(line, "Z"), z)
                /\ FieldValue(line, "F") = AskedTravelFeedRate
            IsStroke(line) ==
                /\ CommandOf(line) = <<"G", "1">>
                /\ LettersOf(line) = <<"X", "Y", "F">>
                /\ FieldValue(line, "F") = AskedFeedRate
        IN  /\ genBodyEnd - genHeaderEnd = LinesUpTo(Len(genPolylines))
            /\ Len(L) >= genBodyEnd
            /\ \A i \in DrawnIndices :
                LET b == TitleLine(i)
                    n == Len(genPolylines[i].v)
                IN  /\ L[b] = <<";", " ", "P", "o", "l", "y", "l", "i", "n", "e", " ">>
                              \o NatToString(i)
                    /\ IsTravel(L[b + 1])
                    /\ IsPenMove(L[b + 2], AskedDownZ)
                    /\ \A k \in 2..n : IsStroke(L[b + 1 + k])
                    /\ IsPenMove(L[b + n + 2], AskedUpZ)
                    /\ ~IsMotion(L[b + n + 3])
                    /\ L[b + n + 4] = <<>>
            /\ \A k \in BodyRange :
                LET z == LastZBefore(L, k)
                IN  /\ CommandOf(L[k]) = <<"G", "0">> /\ HasField(L[k], "X")
                        => z = 0 \/ Near(FieldValue(L[z], "Z"), AskedUpZ)
                    /\ CommandOf(L[k]) = <<"G", "1">>
                        => z # 0 /\ Near(FieldValue(L[z], "Z"), AskedDownZ)

\* A null, a three-point polyline and a two-point polyline gave a body of
\* 8 + 7 lines.
C3_NullThenTwoDrawn ==
    /\ GenDone
    /\ genPolylines = <<NullPolyline, TriPolyline, SegPolyline>>
    /\ genBodyEnd - genHeaderEnd = 15
    /\ OutLines[genHeaderEnd + 1] = <<";", " ", "P", "o", "l", "y", "l",
                                      "i", "n", "e", " ", "2">>

\* C4: the X and Y emitted for a point (x, y) are x - offsetX and
\* y - offsetY, each pen-up Z of the body is penUpZ - offsetZ and each
\* pen-down Z is sheetHeight - offsetZ (all to three decimals).
C4_CoordinatesAreSourceMinusOffset ==
    GenDone =>
        LET L == OutLines
        IN  /\ \A i \in DrawnIndices :
                LET b == TitleLine(i)
                    pts == genPolylines[i].v
                    n == Len(pts)
                    LineOf(k) == L[IF k = 1 THEN b + 1 ELSE b + 1 + k]
                IN  /\ \A k \in 1..n :
                        /\ HasField(LineOf(k), "X")
                        /\ HasField(LineOf(k), "Y")
                        /\ Near(FieldValue(LineOf(k), "X"),
                                pts[k][1] - AskedOffset(1))
                        /\ Near(FieldValue(LineOf(k), "Y"),
                                pts[k][2] - AskedOffset(2))
                    /\ \A k \in {1, 2, n + 2} : HasField(L[b + k], "Z")
                    /\ Near(FieldValue(L[b + 1], "Z"), AskedPenUpZ - AskedOffset(3))
                    /\ Near(FieldValue(L[b + 2], "Z"),
                            AskedSheetHeight - AskedOffset(3))
                    /\ Near(FieldValue(L[b + n + 2], "Z"),
                            AskedPenUpZ - AskedOffset(3))
            /\ \A k \in BodyRange :
                HasField(L[k], "Z") =>
                    \E i \in DrawnIndices :
                        k - TitleLine(i) \in {1, 2, Len(genPolylines[i].v) + 2}

\* With the offset (1.5, -2.25, 0.05) the point (12.3456, -3.5) was
\* travelled to as X10.846 Y-1.250, at Z 1.25 - 0.05.
C4_OffsetPointEmitted ==
    /\ GenDone
    /\ genSettings.penOffset = BasePenOffset
    /\ \E k \in BodyRange :
        OutLines[k] = <<"G", "0", " ", "X", "1", "0", ".", "8", "4", "6",
                        " ", "Y", "-", "1", ".", "2", "5", "0", " ", "Z",
                        "1", ".", "2", "0", "0", " ", "F", "6", "0", "0",
                        "0">>

\* -?\d+\.\d\d\d
IsFixed3Text(t) ==
    LET q == IF Len(t) > 0 /\ t[1] = "-" THEN 2 ELSE 1
    IN  /\ Len(t) >= q + 4
        /\ \A k \in q..(Len(t) - 4) : t[k] \in Digit
        /\ t[Len(t) - 3] = "."
        /\ \A k \in (Len(t) - 2)..Len(t) : t[k] \in Digit

\* -?\d+
IsIntegerText(t) ==
    LET q == IF Len(t) > 0 /\ t[1] = "-" THEN 2 ELSE 1
    IN  Len(t) >= q /\ \A k \in q..Len(t) : t[k] \in Digit

\* C5: every motion line of the body carries X, Y and Z with exactly three
\* decimals and F as an integer, and the {feedRate} and {travelFeedRate}
\* tokens expand to integers, whatever finite feed rates are set.
C5_LengthsFixed3AndFeedRatesInteger ==
    GenDone =>
        LET L == OutLines
        IN  /\ \A k \in BodyRange :
                IsMotion(L[k]) =>
                    /\ \A c \in {"X", "Y", "Z"} :
                        HasField(L[k], c) => IsFixed3Text(FieldOf(L[k], c))
                    /\ HasField(L[k], "F")
                    /\ IsIntegerText(FieldOf(L[k], "F"))
            /\ genSettings.headerTemplate = Str(TokenHeader) =>
                LET w == Split(L[1], " ")
                IN  IsIntegerText(w[5]) /\ IsIntegerText(w[6])

\* The lengths of the body do have three decimals, and the tokens do
\* expand to integers; only the F of the body lines is left as it is set.
C5_OnlyBodyFeedRatesUnrounded ==
    GenDone =>
        LET L == OutLines
        IN  /\ \A k \in BodyRange :
                IsMotion(L[k]) =>
                    /\ \A c \in {"X", "Y", "Z"} :
                        HasField(L[k], c) => IsFixed3Text(FieldOf(L[k], c))
                    /\ FieldOf(L[k], "F")
                        = NumberToString(IF CommandOf(L[k]) = <<"G", "1">>
                                         THEN AskedFeedRate
                                         ELSE AskedTravelFeedRate)
            /\ genSettings.headerTemplate = Str(TokenHeader) =>
                LET w == Split(L[1], " ")
                IN  IsIntegerText(w[5]) /\ IsIntegerText(w[6])

\* A known token is replaced, an unknown one is kept, a value that holds a
\* token is not expanded again: written as a scan of the template from
\* left to right.
RECURSIVE Expanded(_, _, _)
Expanded(t, i, ctx) ==
    IF i > Len(t) THEN <<>>
    ELSE LET closes == {j \in (i + 2)..Len(t) :
                            /\ t[j] = "}"
                            /\ \A k \in (i + 1)..(j - 1) : IsWordChar(t[k])}
         IN  IF t[i] = "{" /\ closes # {}
             THEN LET j == CHOOSE c \in closes : TRUE
                      name == SubSeq(t, i + 1, j - 1)
                      keys == {p \in 1..Len(ctx) : ctx[p][1] = name}
                  IN  (IF keys = {} THEN SubSeq(t, i, j)
                       ELSE ctx[CHOOSE p \in keys : TRUE][2])
                      \o Expanded(t, j + 1, ctx)
             ELSE <<t[i]>> \o Expanded(t, i + 1, ctx)

ReadmeTokens ==
    {<<"p", "e", "n", "U", "p", "Z">>, <<"n", "o", "z", "z", "l", "e", "U", "p", "Z">>,
     <<"s", "h", "e", "e", "t", "H", "e", "i", "g", "h", "t">>, <<"f", "e", "e", "d", "R", "a", "t", "e">>,
     <<"t", "r", "a", "v", "e", "l", "F", "e", "e", "d", "R", "a", "t",
       "e">>, <<"o", "f", "f", "s", "e", "t", "X">>,
     <<"o", "f", "f", "s", "e", "t", "Y">>, <<"o", "f", "f", "s", "e", "t", "Z">>,
     <<"b", "e", "d", "W", "i", "d", "t", "h">>, <<"b", "e", "d", "H", "e", "i", "g", "h", "t">>,
     <<"t", "i", "m", "e", "s", "t", "a", "m", "p">>}

Contains(s, sub) ==
    \E i \in 1..(Len(s) - Len(sub) + 1) : SubSeq(s, i, i + Len(sub) - 1) = sub

\* A template that is missing, null, empty or all white space.
IsBlankTemplate(tpl) ==
    tpl.t # "string" \/ \A i \in 1..Len(tpl.v) : tpl.v[i] \in {" ", "\t", "\n", "\r"}

\* C6: _expandTemplate replaces each {name} whose name is a key by the
\* key's value, keeps each other {name} as it is, and expands nothing
\* twice; and no token of the README survives in the header or the footer
\* generate emits, each being a key of its context.
C6_TemplateExpansion ==
    /\ ExpandDone => tplResult = Expanded(tplTemplate, 1, tplContext)
    /\ GenDone =>
        LET L == OutLines
        IN  \A k \in (1..genHeaderEnd) \cup ((genBodyEnd + 1)..Len(L)) :
                \A tok \in ReadmeTokens :
                    ~Contains(L[k], <<"{">> \o tok \o <<"}">>)

\* {b}{a}{zz} under {a: "1", b: "{a}"} gave {a}1{zz}.
C6_KnownUnknownAndNested ==
    /\ ExpandDone
    /\ tplTemplate = <<"{", "b", "}", "{", "a", "}", "{", "z", "z", "}">>
    /\ tplContext = << <<<<"a">>, <<"1">>>>, <<<<"b">>, <<"{", "a", "}">>>> >>
    /\ tplResult = <<"{", "a", "}", "1", "{", "z", "z", "}">>

\* The header line TokenHeader is to expand to under the settings asked for.
AskedTokenLine ==
    <<";", " ">> \o toFixed3(AskedPenUpZ)
    \o <<" ">> \o toFixed3(AskedUpZ)
    \o <<" ">> \o toFixed3(AskedSheetHeight)
    \o <<" ">> \o NumberToString(MathRound(AskedFeedRate))
    \o <<" ">> \o NumberToString(MathRound(AskedTravelFeedRate))
    \o <<" ">> \o toFixed3(AskedOffset(1))
    \o <<" ">> \o toFixed3(AskedOffset(2))
    \o <<" ">> \o toFixed3(AskedOffset(3))
    \o <<" ">> \o toFixed3(AskedBedWidth)
    \o <<" ">> \o toFixed3(AskedBedHeight)
    \o <<" ">> \o genNow

\* C7: generate returns, under settings whose numeric fields may be
\* missing, null, NaN or infinite, a text that shows the documented default
\* for each such field and the given value for each finite one (in the
\* tokens and in the body); a header or footer template that is missing,
\* empty or blank gives the built-in template, any other is used as given.
C7_DefaultsForWhatIsNotFinite ==
    GenDone =>
        LET L == OutLines
            header == genSettings.headerTemplate
            footer == genSettings.footerTemplate
            nh == Len(DefaultHeaderLines)
            nf == Len(DefaultFooterLines)
        IN  /\ header = Str(TokenHeader) => L[1] = AskedTokenLine
            /\ \A i \in DrawnIndices :
                LET b == TitleLine(i)
                    pts == genPolylines[i].v
                IN  /\ L[b + 1] =
                            <<"G", "0", " ", "X">>
                            \o toFixed3(pts[1][1] - AskedOffset(1))
                            \o <<" ", "Y">> \o toFixed3(pts[1][2] - AskedOffset(2))
                            \o <<" ", "Z">> \o toFixed3(AskedUpZ)
                            \o <<" ", "F">> \o NumberToString(AskedTravelFeedRate)
                    /\ HasField(L[b + 2], "Z")
                    /\ FieldOf(L[b + 2], "Z") = toFixed3(AskedDownZ)
                    /\ HasField(L[b + 3], "F")
                    /\ FieldOf(L[b + 3], "F") = NumberToString(AskedFeedRate)
            /\ IsBlankTemplate(header) =>
                /\ genHeaderEnd = nh + 1
                /\ \A k \in 1..(nh - 1) : L[k] = DefaultHeaderLines[k]
                /\ L[nh] = <<"G", "0", " ", "Z">> \o toFixed3(AskedUpZ)
                           \o <<" ", "F">>
                           \o NumberToString(MathRound(AskedTravelFeedRate))
                           \o <<" ", ";", " ", "p", "e", "n", " ", "u",
                                "p", " ", "(", "s", "a", "f", "e", " ",
                                "h", "e", "i", "g", "h", "t", ",", " ",
                                "n", "o", "z", "z", "l", "e", " ", "a",
                                "d", "j", "u", "s", "t", "e", "d", " ",
                                "f", "o", "r", " ", "p", "e", "n", " ",
                                "o", "f", "f", "s", "e", "t", ")">>
            /\ ~IsBlankTemplate(header) =>
                genHeaderEnd = Len(Split(header.v, "\n")) + 1
            /\ IsBlankTemplate(footer) =>
                /\ Len(L) = genBodyEnd + nf + 1
                /\ \A k \in 1..nf :
                    L[genBodyEnd + k] =
                        IF k = nf - 1
                        THEN <<"G", "0", " ", "X", "0", " ", "Y">>
                             \o toFixed3(AskedBedHeight)
                             \o <<" ", "Z", "1", "0", "0">>
                        ELSE DefaultFooterLines[k]
            /\ ~IsBlankTemplate(footer) =>
                Len(L) = genBodyEnd + Len(Split(footer.v, "\n")) + 1

\* Pen-up Z, feed rate and both bed sizes NaN, the other fields finite and
\* the footer blank: 0.6, 3000 and 256 appear next to the values given,
\* and the built-in footer is used.
C7_NaNFieldsAndBlankFooter ==
    /\ GenDone
    /\ genSettings.penUpZ = NaN
    /\ genSettings.feedRate = NaN
    /\ genSettings.bedWidth = NaN
    /\ genSettings.bedHeight = NaN
    /\ genSettings.sheetHeight = NumV(Milli(200))
    /\ genSettings.travelFeedRate = NumV(Num(6000))
    /\ genSettings.penOffset = BasePenOffset
    /\ genSettings.footerTemplate = Str(<<" ", " ">>)
    /\ OutLines[1] = <<";", " ", "0", ".", "6", "0", "0", " ", "0", ".",
                       "5", "5", "0", " ", "0", ".", "2", "0", "0", " ",
                       "3", "0", "0", "0", " ", "6", "0", "0", "0", " ",
                       "1", ".", "5", "0", "0", " ", "-", "2", ".", "2",
                       "5", "0", " ", "0", ".", "0", "5", "0", " ", "2",
                       "5", "6", ".", "0", "0", "0", " ", "2", "5", "6",
                       ".", "0", "0", "0", " ">>
                     \o Timestamp
    /\ \E k \in (genBodyEnd + 1)..Len(OutLines) :
        OutLines[k] = <<"G", "0", " ", "X", "0", " ", "Y", "2", "5", "6",
                        ".", "0", "0", "0", " ", "Z", "1", "0", "0">>

\* The line that reports progress p.
ProgressLine(p) ==
    <<"M", "7", "3", " ", "P">> \o NatToString(p)
    \o <<" ", "R", "0", " ", ";", " ", "P", "r", "o", "g", "r", "e", "s",
         "s", ":", " ">>
    \o NatToString(p) \o <<"%">>

\* p is k / T * 100 rounded to the nearest integer, a half going up.
IsRoundedPercent(p, k, T) ==
    2 * p * T <= 200 * k + T /\ 200 * k + T < 2 * (p + 1) * T

\* The progress the k-th drawn polyline reports (k counts drawn ones only).
ProgressOf(L, i) ==
    FieldValue(L[TitleLine(i) + Len(genPolylines[i].v) + 3], "P") \div Den

\* C8: the k-th progress line reports round(k / T * 100), T being the
\* number of polylines of at least two points; the values never decrease,
\* lie in 0..100, end with 100, and there are exactly T progress lines in
\* the body (none when T = 0).
C8_ProgressIsRoundedShareOfDrawn ==
    GenDone =>
        LET L == OutLines
            T == Cardinality(DrawnIndices)
            Rank(i) == Cardinality({j \in DrawnIndices : j <= i})
        IN  /\ \A i \in DrawnIndices :
                LET p == ProgressOf(L, i)
                IN  /\ HasField(L[TitleLine(i) + Len(genPolylines[i].v) + 3], "P")
                    /\ L[TitleLine(i) + Len(genPolylines[i].v) + 3] = ProgressLine(p)
                    /\ IsRoundedPercent(p, Rank(i), T)
                    /\ p \in 0..100
                    /\ Rank(i) = T => p = 100
            /\ \A i, j \in DrawnIndices :
                i <= j => ProgressOf(L, i) <= ProgressOf(L, j)
            /\ Cardinality({k \in BodyRange : StartsWith(L[k], <<"M", "7", "3">>)}) = T

\* Eight drawn polylines: the first reports 12.5 rounded up to 13.
C8_EighthsRoundUp ==
    /\ GenDone
    /\ Cardinality(DrawnIndices) = 8
    /\ \E k \in BodyRange :
        OutLines[k] = ProgressLine(13)


(***************************************************************************)
(* Properties of SVGManager.getTransformedPolylines                        *)
(***************************************************************************)
XfDone == xfPc = "done"

\* The millimetre scale in force: the one the metadata gives, 1 when the
\* metadata gives none (or gives 0).
MmScaleInForce ==
    LET m == xfSvg.metadata
    IN IF m.t = "object" /\ m.scaleFactor.t = "object" /\ m.scaleFactor.avgScale.t = "num"
          /\ m.scaleFactor.avgScale.v # 0
       THEN m.scaleFactor.avgScale.v
       ELSE Whole(1)

\* A point of the drawing scaled and then turned around the origin.
ScaledAndTurned(p) ==
    LET x == (p[1] * MmScaleInForce * xfSvg.scale) \div (SvgQ * SvgQ)
        y == (p[2] * MmScaleInForce * xfSvg.scale) \div (SvgQ * SvgQ)
    IN <<(x * Cos(xfSvg.rotation) - y * Sin(xfSvg.rotation)) \div SvgQ,
         (x * Sin(xfSvg.rotation) + y * Cos(xfSvg.rotation)) \div SvgQ>>

TurnedPoints == {ScaledAndTurned(p) : p \in PointsOf(xfSvg.polylines)}

\* Twice the centre of the box around a set of points.
TwiceCenter(points) ==
    <<MinOf({p[1] : p \in points}) + MaxOf({p[1] : p \in points}),
      MinOf({p[2] : p \in points}) + MaxOf({p[2] : p \in points})>>

\* Width and height of the box around a set of points.
Extent(points) ==
    <<MaxOf({p[1] : p \in points}) - MinOf({p[1] : p \in points}),
      MaxOf({p[2] : p \in points}) - MinOf({p[2] : p \in points})>>

\* C12: for a drawing with at least one point, the box around the points
\* getTransformedPolylines returns has its centre at svg.translation and
\* the extent of the scaled drawing turned by the rotation; every returned
\* point lies, relative to the translation, where the scaled and turned
\* point lies relative to the centre of the scaled and turned drawing, so
\* the translation does not change the shape.
C12_BoxCenteredAtTranslation ==
    XfDone /\ PointsOf(xfSvg.polylines) # {} =>
        /\ TwiceCenter(PointsOf(xfResult)) = <<2 * xfSvg.translation[1], 2 * xfSvg.translation[2]>>
        /\ Extent(PointsOf(xfResult)) = Extent(TurnedPoints)
        /\ Len(xfResult) = Len(xfSvg.polylines)
        /\ \A k \in 1..Len(xfResult) :
            /\ Len(xfResult[k]) = Len(xfSvg.polylines[k])
            /\ \A n \in 1..Len(xfResult[k]) :
                LET q == ScaledAndTurned(xfSvg.polylines[k][n])
                IN /\ 2 * (xfResult[k][n][1] - xfSvg.translation[1]) = 2 * q[1] - TwiceCenter(TurnedPoints)[1]
                   /\ 2 * (xfResult[k][n][2] - xfSvg.translation[2]) = 2 * q[2] - TwiceCenter(TurnedPoints)[2]

\* A drawing of two polylines, scaled by the metadata and by half, turned by
\* an angle that is no right angle, around a given view-box centre, and
\* placed off the bed centre: the box returned is no point.
C12_TurnedHalfScaledDrawing ==
    /\ XfDone
    /\ Len(xfSvg.polylines) = 2
    /\ xfSvg.rotation = 53
    /\ xfSvg.scale = Half(1)
    /\ MmScaleInForce = Whole(3)
    /\ xfSvg.centerViewBox.t = "array"
    /\ xfSvg.translation = <<-140, 290>>
    /\ Extent(PointsOf(xfResult))[1] > 0
    /\ Extent(PointsOf(xfResult))[2] > 0


(***************************************************************************)
(* Properties of the SVGManager's selection                                *)
(***************************************************************************)
\* The drawings of the collection that are the selected one.
SelectedDrawings ==
    {k \in 1..Len(svgManager.svgObjects) : svgManager.svgObjects[k].id = svgManager.selectedId}

\* C16: after any sequence of addSVG, removeSVG, selectSVG,
\* updateTransformation and toggleVisibility calls at most one drawing is
\* selected, selectedId is null or the id of a drawing of the collection,
\* getSelectedSVG returns a drawing whenever selectedId is not null, addSVG
\* selects the new drawing and removeSVG of the selected drawing clears the
\* selection.
C16_SelectionIsNullOrInCollection ==
    mgrCall # <<>> =>
        /\ Cardinality(SelectedDrawings) <= 1
        /\ svgManager.selectedId = Null \/ MapHas(svgManager.svgObjects, svgManager.selectedId)
        /\ svgManager.selectedId # Null => getSelectedSVG(svgManager) # Undefined
        /\ mgrCall.op = "addSVG" =>
            /\ svgManager.selectedId = mgrCall.id
            /\ MapHas(svgManager.svgObjects, mgrCall.id)
        /\ mgrCall.op = "removeSVG" /\ mgrCall.id # Null => svgManager.selectedId # mgrCall.id

\* What holds of the selection: at most one drawing is selected, addSVG
\* selects the drawing it added, removeSVG leaves the removed id neither in
\* the collection nor selected, and getSelectedSVG returns the drawing with
\* the selected id when the collection has one.
C16_AddSelectsRemoveClears ==
    mgrCall # <<>> =>
        /\ Cardinality(SelectedDrawings) <= 1
        /\ MapHas(svgManager.svgObjects, svgManager.selectedId)
            => getSelectedSVG(svgManager).id = svgManager.selectedId
        /\ mgrCall.op = "addSVG" =>
            /\ svgManager.selectedId = mgrCall.id
            /\ MapHas(svgManager.svgObjects, mgrCall.id)
        /\ mgrCall.op = "removeSVG" =>
            /\ ~MapHas(svgManager.svgObjects, mgrCall.id)
            /\ mgrCall.id # Null => svgManager.selectedId # mgrCall.id
        /\ mgrCall.op = "selectSVG" => svgManager.selectedId = mgrCall.id


(***************************************************************************)
(* Properties of the App's file import                                     *)
(***************************************************************************)
\* The import handler has run to its end, and no other handler since.
ImportEnded == appPc = "idle" /\ appImport.file # Null

\* The SVG text the import read: the file's, or for an image the text the
\* image dialog resolved with (none when that dialog was cancelled).
ImportedMarkup ==
    IF appImport.file.content.kind # "image" THEN appImport.file.content
    ELSE IF Len(appImport.answers) >= 1 /\ appImport.answers[1] # Null
    THEN appImport.answers[1].v
    ELSE Markup("none", EmptyResult)

ImportMalformed == ImportedMarkup.kind = "malformed"
ImportEmpty == ImportedMarkup.kind = "parsed" /\ Len(ImportedMarkup.result.polylines) = 0
ImportCancelled ==
    Len(appImport.answers) >= 1 /\ appImport.answers[Len(appImport.answers)] = Null

\* The alerts shown for texts that parse and hold nothing drawable.
EmptyAlerts ==
    {ImportFailedAlert(_loadSVGFile(f).message) :
        f \in {g \in ImportFiles : g.content.kind = "parsed" /\ Len(g.content.result.polylines) = 0}}
    \cup {NoPathsConvertedAlert}

\* C13: when an import ends because the markup is malformed, because it
\* yields no polyline, or because the user cancels a dialog, the collection
\* of drawings, the selection (the manager's and the app's) and the undo
\* history are what they were when the import began; malformed markup and
\* markup without polylines are each reported by an alert, and the alert for
\* malformed markup is none of the alerts shown for markup without polylines.
C13_FailedImportAddsNothing ==
    ImportEnded =>
        /\ ImportMalformed \/ ImportEmpty \/ ImportCancelled =>
            /\ svgManager = appImport.before.svgManager
            /\ app = appImport.before.app
        /\ ImportMalformed => appAlert # <<>> /\ appAlert \notin EmptyAlerts
        /\ ImportEmpty => appAlert \in EmptyAlerts
        /\ ImportCancelled => appAlert = <<>>

\* Each of the three ways to fail, with a drawing in the collection and an
\* entry in the history before.
C13_MalformedAfterAnImport ==
    /\ ImportEnded
    /\ ImportMalformed
    /\ Len(svgManager.svgObjects) = 1
    /\ Len(app.history.undoStack) >= 1
    /\ app.selectedSVGId = SvgId(1)

C13_EmptyAfterAnImport ==
    /\ ImportEnded
    /\ ImportEmpty
    /\ Len(svgManager.svgObjects) = 1
    /\ Len(app.history.undoStack) >= 1

C13_CancelledAfterAnImport ==
    /\ ImportEnded
    /\ ImportCancelled
    /\ appImport.file.content.kind = "parsed"
    /\ Len(svgManager.svgObjects) = 1
    /\ Len(app.history.undoStack) >= 1


(***************************************************************************)
(* Properties of the path sampler                                          *)
(***************************************************************************)
PathDone == pathPc = "done"

\* All points of the polyline are the same point.
IsDegenerate(pl) == \A n \in 1..Len(pl) : pl[n] = pl[1]

\* C14: for every sequence of path commands each polyline _samplePath
\* returns has at least two points and is not degenerate (its points are
\* not all the same point); path data without commands gives no polyline.
C14_NoShortOrDegeneratePolyline ==
    PathDone =>
        /\ \A k \in 1..Len(pathResult) :
            Len(pathResult[k]) >= 2 /\ ~IsDegenerate(pathResult[k])
        /\ pathD = <<>> => pathResult = <<>>

\* What holds of the polylines returned: each has at least two points, and
\* path data without commands gives none.
C14_AtLeastTwoPoints ==
    PathDone =>
        /\ \A k \in 1..Len(pathResult) : Len(pathResult[k]) >= 2
        /\ pathD = <<>> => pathResult = <<>>


\* The command read last.
LastCommand == pathD[Len(pathD)]

IsLineCommand(c) == c.cmd \in {"L", "l", "H", "h", "V", "v"}
IsCurveOrArcCommand(c) == c.cmd \in {"C", "c", "S", "s", "Q", "q", "T", "t", "A", "a"}

\* How many numbers one group of arguments of the command has.
GroupSize(c) ==
    CASE c.cmd \in {"L", "l", "T", "t"} -> 2
      [] c.cmd \in {"H", "h", "V", "v"} -> 1
      [] c.cmd \in {"C", "c"} -> 6
      [] c.cmd \in {"S", "s", "Q", "q"} -> 4
      [] c.cmd \in {"A", "a"} -> 7
      [] OTHER -> 0

\* A drawing command with one group of arguments has been read last.
DrewOneGroup ==
    /\ pathD # <<>>
    /\ IsLineCommand(LastCommand) \/ IsCurveOrArcCommand(LastCommand)
    /\ Len(LastCommand.args) = GroupSize(LastCommand)

\* The samples of the segment that a command with one group of arguments
\* draws from the state s, the first of them at the current point.
SegmentSamples(c, s) ==
    LET a == c.args
        x == s.currentX
        y == s.currentY
        rate == QUALITY_SAMPLE_RATE
        c1 == FirstControl(s, s.lastControlX, s.lastControlY)
        q1 == FirstControl(s, s.lastQuadraticControlX, s.lastQuadraticControlY)
    IN CASE c.cmd = "L" -> _sampleLine(x, y, a[1], a[2], rate)
         [] c.cmd = "l" -> _sampleLine(x, y, x + a[1], y + a[2], rate)
         [] c.cmd = "H" -> _sampleLine(x, y, a[1], y, rate)
         [] c.cmd = "h" -> _sampleLine(x, y, x + a[1], y, rate)
         [] c.cmd = "V" -> _sampleLine(x, y, x, a[1], rate)
         [] c.cmd = "v" -> _sampleLine(x, y, x, y + a[1], rate)
         [] c.cmd = "C" -> _sampleCubicBezier(x, y, a[1], a[2], a[3], a[4], a[5], a[6], rate)
         [] c.cmd = "c" -> _sampleCubicBezier(x, y, x + a[1], y + a[2], x + a[3], y + a[4],
                                              x + a[5], y + a[6], rate)
         [] c.cmd = "S" -> _sampleCubicBezier(x, y, c1[1], c1[2], a[1], a[2], a[3], a[4], rate)
         [] c.cmd = "s" -> _sampleCubicBezier(x, y, c1[1], c1[2], x + a[1], y + a[2],
                                              x + a[3], y + a[4], rate)
         [] c.cmd = "Q" -> _sampleQuadraticBezier(x, y, a[1], a[2], a[3], a[4], rate)
         [] c.cmd = "q" -> _sampleQuadraticBezier(x, y, x + a[1], y + a[2], x + a[3], y + a[4], rate)
         [] c.cmd = "T" -> _sampleQuadraticBezier(x, y, q1[1], q1[2], a[1], a[2], rate)
         [] c.cmd = "t" -> _sampleQuadraticBezier(x, y, q1[1], q1[2], x + a[1], y + a[2], rate)
         [] c.cmd = "A" -> _sampleEllipticalArc(x, y, a[1], a[2], a[3], a[4], a[5], a[6], a[7], rate)
         [] c.cmd = "a" -> _sampleEllipticalArc(x, y, a[1], a[2], a[3], a[4], a[5],
                                                x + a[6], y + a[7], rate)

\* C19: a drawing command appends the samples of its segment to the
\* sub-path in progress without the first sample exactly when the sub-path
\* already has points, so the joint point is not repeated, and a sub-path
\* that a drawing command begins starts at the current point.
C19_FirstSampleDroppedIffSubPathHasPoints ==
    DrewOneGroup =>
        LET samples == SegmentSamples(LastCommand, pathBefore)
        IN /\ samples[1] = <<pathBefore.currentX, pathBefore.currentY>>
           /\ Len(pathBefore.currentPolyline) > 0 =>
                pathState.currentPolyline = pathBefore.currentPolyline \o Tail(samples)
           /\ Len(pathBefore.currentPolyline) = 0 =>
                /\ pathState.currentPolyline = samples
                /\ pathState.currentPolyline[1] = <<pathBefore.currentX, pathBefore.currentY>>

\* What holds: lines are appended so, curves and arcs are appended without
\* their first sample whether or not the sub-path has points.
C19_CurvesAlwaysDropFirstSample ==
    DrewOneGroup =>
        LET samples == SegmentSamples(LastCommand, pathBefore)
        IN /\ samples[1] = <<pathBefore.currentX, pathBefore.currentY>>
           /\ Len(pathBefore.currentPolyline) > 0 \/ IsCurveOrArcCommand(LastCommand) =>
                pathState.currentPolyline = pathBefore.currentPolyline \o Tail(samples)
           /\ Len(pathBefore.currentPolyline) = 0 /\ IsLineCommand(LastCommand) =>
                pathState.currentPolyline = samples


\* The trackers of the control points in the sampler's state.
CubicTrackerSet(s) == s.lastControlX # Undefined /\ s.lastControlY # Undefined
CubicTrackerClear(s) == s.lastControlX = Undefined /\ s.lastControlY = Undefined
QuadraticTrackerSet(s) ==
    s.lastQuadraticControlX # Undefined /\ s.lastQuadraticControlY # Undefined
QuadraticTrackerClear(s) ==
    s.lastQuadraticControlX = Undefined /\ s.lastQuadraticControlY = Undefined

\* The letter of the command read before the last one, "" without one.
PreviousLetter == IF Len(pathD) >= 2 THEN pathD[Len(pathD) - 1].cmd ELSE ""

\* The first control point a smooth command has to use: the tracked control
\* point mirrored at the current point when the command before was a curve
\* of its kind, else the current point.
MirroredControl(kinds, trackedX, trackedY) ==
    IF PreviousLetter \in kinds
    THEN <<2 * pathBefore.currentX - trackedX.v, 2 * pathBefore.currentY - trackedY.v>>
    ELSE <<pathBefore.currentX, pathBefore.currentY>>

\* C20: after M, L, H, V, A or Z both control-point trackers are cleared;
\* after C or S only the cubic tracker is set (to the curve's second control
\* point), after Q or T only the quadratic tracker (to the curve's control
\* point); S mirrors the tracked control point only if the command before
\* was C or S, T only if it was Q or T, and otherwise the first control
\* point is the current point.
C20_ControlPointTrackers ==
    pathD # <<>> =>
        LET c == LastCommand
            a == c.args
            x == pathBefore.currentX
            y == pathBefore.currentY
            rate == QUALITY_SAMPLE_RATE
            s1 == MirroredControl({"C", "c", "S", "s"}, pathBefore.lastControlX, pathBefore.lastControlY)
            t1 == MirroredControl({"Q", "q", "T", "t"}, pathBefore.lastQuadraticControlX,
                                  pathBefore.lastQuadraticControlY)
            Drawn(samples) == pathState.currentPolyline = pathBefore.currentPolyline \o Tail(samples)
        IN /\ c.cmd \in {"M", "m", "L", "l", "H", "h", "V", "v", "A", "a", "Z", "z"} =>
                CubicTrackerClear(pathState) /\ QuadraticTrackerClear(pathState)
           /\ c.cmd \in {"C", "c", "S", "s"} =>
                CubicTrackerSet(pathState) /\ QuadraticTrackerClear(pathState)
           /\ c.cmd \in {"Q", "q", "T", "t"} =>
                QuadraticTrackerSet(pathState) /\ CubicTrackerClear(pathState)
           /\ c.cmd = "C" => pathState.lastControlX.v = a[3] /\ pathState.lastControlY.v = a[4]
           /\ c.cmd = "c" => pathState.lastControlX.v = x + a[3] /\ pathState.lastControlY.v = y + a[4]
           /\ c.cmd = "Q" =>
                pathState.lastQuadraticControlX.v = a[1] /\ pathState.lastQuadraticControlY.v = a[2]
           /\ c.cmd = "q" =>
                pathState.lastQuadraticControlX.v = x + a[1] /\ pathState.lastQuadraticControlY.v = y + a[2]
           /\ c.cmd = "S" =>
                /\ Drawn(_sampleCubicBezier(x, y, s1[1], s1[2], a[1], a[2], a[3], a[4], rate))
                /\ pathState.lastControlX.v = a[1] /\ pathState.lastControlY.v = a[2]
           /\ c.cmd = "s" =>
                /\ Drawn(_sampleCubicBezier(x, y, s1[1], s1[2], x + a[1], y + a[2],
                                            x + a[3], y + a[4], rate))
                /\ pathState.lastControlX.v = x + a[1] /\ pathState.lastControlY.v = y + a[2]
           /\ c.cmd = "T" =>
                /\ Drawn(_sampleQuadraticBezier(x, y, t1[1], t1[2], a[1], a[2], rate))
                /\ pathState.lastQuadraticControlX.v = t1[1]
                /\ pathState.lastQuadraticControlY.v = t1[2]
           /\ c.cmd = "t" =>
                /\ Drawn(_sampleQuadraticBezier(x, y, t1[1], t1[2], x + a[1], y + a[2], rate))
                /\ pathState.lastQuadraticControlX.v = t1[1]
                /\ pathState.lastQuadraticControlY.v = t1[2]

\* S after C, then T: the S curve is drawn with the mirrored control point,
\* which is not the current point, and the T curve with the current point.
C20_SmoothAfterCubicThenT ==
    /\ Len(pathD) = 3
    /\ pathD[1].cmd = "C"
    /\ pathD[2].cmd = "S"
    /\ pathD[3].cmd = "T"
    /\ QuadraticTrackerSet(pathState)
    /\ pathState.lastQuadraticControlX.v = pathBefore.currentX
    /\ pathState.lastQuadraticControlY.v = pathBefore.currentY
    /\ <<2 * Units(2) - pathBefore.lastControlX.v, 0 - pathBefore.lastControlY.v>> # <<Units(2), 0>>


(***************************************************************************)
(* Properties of SVGProcessor._getTransformMatrix and _applyTransform      *)
(***************************************************************************)
TfDone == tfPc = "done"

\* What the transform attribute's sub-commands mean for a point, each by
\* itself: a point turned by quarter turns, moved, stretched, or mapped by
\* the six numbers of matrix().
RECURSIVE QuarterTurned(_, _)
QuarterTurned(p, turns) ==
    IF turns = 0 THEN p ELSE QuarterTurned(<<-p[2], p[1]>>, turns - 1)

NumbersOf(values) ==
    LET nums == SelectSeq(values, LAMBDA val : val.t = "num")
    IN  [k \in 1..Len(nums) |-> nums[k].v]

SubCommandActs(cmd, p) ==
    LET n == NumbersOf(cmd.args)
    IN  CASE cmd.type = "translate" ->
                <<p[1] + (IF Len(n) >= 1 THEN n[1] ELSE 0),
                  p[2] + (IF Len(n) >= 2 THEN n[2] ELSE 0)>>
          [] cmd.type = "scale" ->
                <<p[1] * (IF Len(n) >= 1 THEN n[1] ELSE 1),
                  p[2] * (IF Len(n) >= 2 THEN n[2]
                          ELSE IF Len(n) >= 1 THEN n[1] ELSE 1)>>
          [] cmd.type = "rotate" ->
                LET turns == IF Len(n) >= 1 THEN (n[1] % 360) \div 90 ELSE 0
                    center == IF Len(n) >= 3 THEN <<n[2], n[3]>> ELSE <<0, 0>>
                    turned == QuarterTurned(<<p[1] - center[1], p[2] - center[2]>>,
                                            turns)
                IN  <<turned[1] + center[1], turned[2] + center[2]>>
          [] cmd.type = "matrix" /\ Len(n) = 6 ->
                <<n[1] * p[1] + n[3] * p[2] + n[5],
                  n[2] * p[1] + n[4] * p[2] + n[6]>>
          [] OTHER -> p

\* The sub-commands of one attribute act from the rightmost to the leftmost.
RECURSIVE RightmostFirst(_, _, _)
RightmostFirst(commands, k, p) ==
    IF k = 0 THEN p
    ELSE RightmostFirst(commands, k - 1, SubCommandActs(commands[k], p))

AttributeActs(attribute, p) ==
    IF attribute.t = "null" THEN p
    ELSE RightmostFirst(attribute.v, Len(attribute.v), p)

\* The element's own attribute acts first, then its parent's, up to the root.
RECURSIVE ElementFirst(_, _, _)
ElementFirst(chain, k, p) ==
    IF k > Len(chain) THEN p
    ELSE ElementFirst(chain, k + 1, AttributeActs(chain[k], p))

\* C15: the resolved transform lets the rightmost sub-command of an
\* attribute act on the point first and an ancestor's attribute act after
\* the element's own; sub-commands with an unrecognized name and matrix()
\* with other than six numbers change nothing.
C15_RightmostFirstAncestorsAfter ==
    TfDone =>
        /\ tfMatrix = _getTransformMatrix(tfChain)
        /\ Len(tfResult) = Len(tfPolyline)
        /\ \A k \in 1..Len(tfPolyline) :
               tfResult[k] = ElementFirst(tfChain, 1, tfPolyline[k])

\* translate(10,0) rotate(90) takes (1,0) to (10,1), and the parent's
\* scale(2,3) rotate(270) takes that to (2,-30).
C15_TranslateRotateUnderAncestor ==
    /\ TfDone
    /\ tfChain = <<Attribute(<<SubCommand("translate", <<NumV(10), NumV(0)>>),
                               SubCommand("rotate", <<NumV(90)>>)>>),
                   Attribute(<<SubCommand("scale", <<NumV(2), NumV(3)>>),
                               SubCommand("rotate", <<NumV(270)>>)>>)>>
    /\ tfPolyline[1] = <<1, 0>>
    /\ tfResult[1] = <<2, -30>>


(***************************************************************************)
(* Properties of the loops of _greedyNearestNeighbor and _twoOptImprovement*)
(***************************************************************************)
TourDone == tourPc = "done"

\* The two ends of a segment in the direction it is drawn in.
EffectiveStart(seg) == IF seg.reversed THEN seg.end ELSE seg.start
EffectiveEnd(seg) == IF seg.reversed THEN seg.start ELSE seg.end

\* The total travel of a tour: from the start point to the first segment
\* and from the end of every segment to the start of the next.
RECURSIVE TravelUpTo(_, _, _)
TravelUpTo(segs, k, sp) ==
    IF k = 0 THEN 0
    ELSE TravelUpTo(segs, k - 1, sp)
         + _distance(IF k = 1 THEN sp ELSE EffectiveEnd(segs[k - 1]),
                     EffectiveStart(segs[k]))

TotalTravel(segs, sp) == TravelUpTo(segs, Len(segs), sp)

\* A pass has just applied a reversal, of positions i+1..j; reversing the
\* same positions again gives the tour as it was before.
JustReversed == tourPc = "while" /\ tourReversals > 0

TourBeforeReversal == ReverseSlice(tourNow, tourI, tourJ)

\* C17: every reversal 2-opt applies strictly shortens the total travel of
\* the whole tour, so the tour 2-opt returns has no more total travel than
\* the greedy tour it started from.
C17_ReversalsShortenTotalTravel ==
    /\ JustReversed =>
           TotalTravel(tourNow, tourStart)
               < TotalTravel(TourBeforeReversal, tourStart)
    /\ TourDone =>
           TotalTravel(tourNow, tourStart) <= TotalTravel(tourOptimized, tourStart)

\* What every reversal does shorten: the moves into the segments at
\* positions i..j, which leave out the move from position j to position
\* j + 1.
C17_ReversalsShortenMeasuredMoves ==
    JustReversed =>
        100 * _getTourSegmentDistance(tourNow, tourI, tourJ, tourStart)
            < 100 * _getTourSegmentDistance(TourBeforeReversal, tourI, tourJ,
                                            tourStart) - 1


\* A pass of 2-opt has ended without a reversal.
PassFoundNone == tourPc = "while" /\ tourIterations > 0 /\ tourReversals = 0

\* What holds at every moment of the two loops: the greedy loop has made
\* one selection for every polyline it has taken from remaining, N in all
\* once it is over; 2-opt has begun at most 100 passes, with at most one
\* reversal in the pass at hand; and after a pass without a reversal no
\* further pass begins.
LoopsBounded ==
    /\ tourSelections + Len(tourRemaining) = Len(tourSegments)
    /\ tourSelections = Len(tourResult)
    /\ tourPc # "greedy" =>
           /\ tourSelections = Len(tourSegments)
           /\ Len(tourOptimized) = Len(tourSegments)
    /\ tourIterations <= 100
    /\ tourReversals <= 1
    /\ PassFoundNone => ~ENABLED BeginPass /\ ENABLED ReturnTour

\* C18: for every input the greedy construction ends after exactly N
\* selections for N polylines, and the 2-opt refinement ends: it runs at
\* most 100 passes, applies at most one reversal per pass and stops as soon
\* as a full pass finds no improving pair.
C18_LoopsEnd == []LoopsBounded /\ <>TourDone

\* 2-opt has returned from five segments after its hundredth pass, which
\* applied a reversal as every pass before it did.
C18_StoppedAtTheHundredthPass ==
    /\ TourDone
    /\ Len(tourSegments) = 5
    /\ tourSelections = 5
    /\ tourIterations = 100
    /\ tourReversals = 1

\* 2-opt has returned after three passes or more, the last of which found
\* no improving pair.
C18_ReturnedAfterPassWithoutReversal ==
    /\ TourDone
    /\ tourSelections = Len(tourSegments)
    /\ tourIterations >= 3
    /\ tourIterations < 100
    /\ tourReversals = 0
    /\ tourNow # tourOptimized


(***************************************************************************)
(* Properties of SVGProcessor._handleClose                                 *)
(***************************************************************************)

IsCloseCommand(c) == c.cmd \in {"Z", "z"}

IsMoveCommand(c) == c.cmd \in {"M", "m"}

\* The last point of the sub-path in progress is farther than 0.1 from the
\* sub-path start (distances compared by their squares).
FartherThanThreshold(s) ==
    /\ s.currentPolyline /= <<>>
    /\ LET lastPoint == s.currentPolyline[Len(s.currentPolyline)]
       IN (lastPoint[1] - s.startX) * (lastPoint[1] - s.startX)
            + (lastPoint[2] - s.startY) * (lastPoint[2] - s.startY)
          > (PathQ * PathQ) \div 100

\* The sub-path a Z has to look at: the one in progress, with the sub-path
\* start appended exactly when its last point is farther than 0.1 from it.
ClosedSubPath(s) ==
    IF FartherThanThreshold(s)
    THEN s.currentPolyline \o <<<<s.startX, s.startY>>>>
    ELSE s.currentPolyline

\* C21: on Z/z the sub-path start is appended exactly when the last point is
\* farther than 0.1 from it, the sub-path is committed if it then has at
\* least 2 points, the sub-path in progress is emptied and the current point
\* becomes the sub-path start; a second Z right after commits nothing; the
\* sub-path start is changed by M/m only.
C21_CloseCommitsAndReturnsToStart ==
    (pathPc = "sampling" /\ pathD /= <<>>) =>
        /\ IsCloseCommand(LastCommand) =>
            /\ pathState.allPolylines =
                    IF Len(ClosedSubPath(pathBefore)) >= 2
                    THEN pathBefore.allPolylines \o <<ClosedSubPath(pathBefore)>>
                    ELSE pathBefore.allPolylines
            /\ pathState.currentPolyline = <<>>
            /\ pathState.currentX = pathBefore.startX
            /\ pathState.currentY = pathBefore.startY
            /\ PreviousLetter \in {"Z", "z"} => pathState.allPolylines = pathBefore.allPolylines
        /\ ~IsMoveCommand(LastCommand) =>
            /\ pathState.startX = pathBefore.startX
            /\ pathState.startY = pathBefore.startY

\* A Z closed an open sub-path with a line back to its start and committed it.
C21_ClosedWithLineToStart ==
    /\ pathPc = "sampling" /\ pathD /= <<>>
    /\ IsCloseCommand(LastCommand)
    /\ FartherThanThreshold(pathBefore)
    /\ Len(pathState.allPolylines) = Len(pathBefore.allPolylines) + 1

\* A Z found the last point on the sub-path start and committed the sub-path
\* as it was.
C21_ClosedWithoutLine ==
    /\ pathPc = "sampling" /\ pathD /= <<>>
    /\ IsCloseCommand(LastCommand)
    /\ ~FartherThanThreshold(pathBefore)
    /\ Len(pathBefore.currentPolyline) >= 2
    /\ pathState.allPolylines = pathBefore.allPolylines \o <<pathBefore.currentPolyline>>

\* A Z right after a Z that had committed a sub-path.
C21_SecondCloseCommitsNothing ==
    /\ pathPc = "sampling" /\ Len(pathD) >= 2
    /\ IsCloseCommand(LastCommand)
    /\ PreviousLetter \in {"Z", "z"}
    /\ pathState.allPolylines /= <<>>


(***************************************************************************)
(* Properties of HistoryManager                                            *)
(***************************************************************************)

HistCalled(op) == historyManager /= <<>> /\ histCall.op = op

\* The stack with its last entry taken off and the entry itself.
ButLast(stack) == [i \in 1..(Len(stack) - 1) |-> stack[i]]

C22_UndoneOnce ==
    /\ HistCalled("undo")
    /\ Len(histBefore.undoStack) >= 2
    /\ Len(historyManager.redoStack) = 1

C22_UndoOnEmptyStack ==
    /\ HistCalled("undo")
    /\ histBefore.undoStack = <<>>
    /\ histPushed >= 1

C22_PushEmptiedRedoStack ==
    /\ HistCalled("pushState")
    /\ histBefore.redoStack /= <<>>

\* The numbers the entries of a stack were pushed with.
Serials(stack) == [i \in 1..Len(stack) |-> stack[i].data.serial]

\* C23: the undo stack holds at most 50 entries and both stacks together
\* hold at most 50; pushState on an undo stack of 50 drops the oldest entry
\* and keeps the 50 most recent in their order.
C23_AtMostFiftyEntries ==
    historyManager /= <<>> =>
        /\ Len(historyManager.undoStack) <= 50
        /\ Len(historyManager.undoStack) + Len(historyManager.redoStack) <= 50
        /\ (HistCalled("pushState") /\ Len(histBefore.undoStack) = 50) =>
            /\ Len(historyManager.undoStack) = 50
            /\ \A i \in 1..49 : historyManager.undoStack[i] = histBefore.undoStack[i + 1]
            /\ historyManager.undoStack[50].data.serial = histPushed

\* pushState found 50 entries and dropped the oldest.
C23_OldestDropped ==
    /\ HistCalled("pushState")
    /\ Len(histBefore.undoStack) = 50
    /\ histBefore.undoStack[1] /= historyManager.undoStack[1]

\* undo on an undo stack of 50 entries.
C23_UndoneFromFull ==
    /\ HistCalled("undo")
    /\ Len(histBefore.undoStack) = 50
    /\ Len(historyManager.redoStack) >= 1


(***************************************************************************)
(* Properties of the App's undo and redo                                   *)
(***************************************************************************)

\* The drawings before the k-th handler ran.
ObjectsBefore(k) == IF k = 1 THEN <<>> ELSE appLog[k - 1].svgObjects

\* A drawing's placement state among the drawings given.
Placement(objects, id) ==
    IF ~MapHas(objects, id) THEN Null
    ELSE LET svg == objects[MapIndex(objects, id)]
         IN [translation |-> svg.translation, scale |-> svg.scale,
             rotation |-> svg.rotation, visible |-> svg.visible]

\* The k-th handler was a transform update or a visibility toggle of a
\* drawing of the workspace.
PlacementAction(k) ==
    /\ k \in 1..Len(appLog)
    /\ appLog[k].handler \in {"transform", "visibility"}
    /\ MapHas(ObjectsBefore(k), appLog[k].id)

UndoneAt(k) == PlacementAction(k) /\ Len(appLog) >= k + 1 /\ appLog[k + 1].handler = "undo"

RedoneAt(k) == UndoneAt(k) /\ Len(appLog) >= k + 2 /\ appLog[k + 2].handler = "redo"

\* C24 (first half): Undo right after a transform update or a visibility
\* toggle gives the drawing the translation, scale, rotation and visible
\* flag it had before that action.
C24_UndoRestoresPlacement ==
    \A k \in 1..Len(appLog) :
        UndoneAt(k) =>
            Placement(appLog[k + 1].svgObjects, appLog[k].id)
                = Placement(ObjectsBefore(k), appLog[k].id)

\* C24: Undo right after a transform update or a visibility toggle restores
\* the drawing's placement state from before the action, and Redo right
\* after that Undo restores the placement state from before the Undo.
C24_UndoThenRedoIsIdentity ==
    \A k \in 1..Len(appLog) :
        /\ UndoneAt(k) =>
            Placement(appLog[k + 1].svgObjects, appLog[k].id)
                = Placement(ObjectsBefore(k), appLog[k].id)
        /\ RedoneAt(k) =>
            Placement(appLog[k + 2].svgObjects, appLog[k].id)
                = Placement(appLog[k].svgObjects, appLog[k].id)

\* What the code does on Redo after that Undo: the drawing stays as the
\* Undo left it.
C24_RedoLeavesPlacementUndone ==
    \A k \in 1..Len(appLog) :
        RedoneAt(k) =>
            Placement(appLog[k + 2].svgObjects, appLog[k].id)
                = Placement(ObjectsBefore(k), appLog[k].id)

\* A transform update that changed the drawing was undone and redone.
C24_TransformUndoneAndRedone ==
    \E k \in 1..Len(appLog) :
        /\ RedoneAt(k)
        /\ appLog[k].handler = "transform"
        /\ Placement(appLog[k].svgObjects, appLog[k].id) /= Placement(ObjectsBefore(k), appLog[k].id)

C24_ToggleUndone ==
    \E k \in 1..Len(appLog) :
        /\ UndoneAt(k)
        /\ appLog[k].handler = "visibility"


(***************************************************************************)
(* Properties of generate followed by validate                             *)
(***************************************************************************)

Accepted(result) == result.valid /\ result.errors = <<>> /\ result.warnings = <<>>

\* Every point of the polylines lies on the bed.
AllPointsOnBed ==
    \A i \in 1..Len(chkPolylines) :
        \A j \in 1..Len(chkPolylines[i].v) :
            LET p == chkPolylines[i].v[j]
            IN p[1] >= 0 /\ p[1] <= chkBed[1] /\ p[2] >= 0 /\ p[2] <= chkBed[2]

\* The bed's width and height are whole thousandths of a millimetre, the
\* numbers toFixed(3) writes without rounding.
BedInThousandths == chkBed[1] % Milli(1) = 0 /\ chkBed[2] % Milli(1) = 0

\* C25 (as stated): for polylines whose points all lie on the bed, the text
\* generate produces with its default templates, pen offset, heights and
\* feed rates is accepted by validate for the same bed size: valid, no
\* errors, no warnings.
C25_GeneratedTextAccepted ==
    (chkPc = "done" /\ AllPointsOnBed) => Accepted(chkResult)

\* C25 (amended): the same for a bed whose width and height are whole
\* thousandths of a millimetre.
C25_GeneratedTextAcceptedOnMilliBed ==
    (chkPc = "done" /\ AllPointsOnBed /\ BedInThousandths) => Accepted(chkResult)

\* Two drawn polylines, one ending on the far corner of the bed, were
\* generated and accepted.
C25_FarCornerAccepted ==
    /\ chkPc = "done"
    /\ BedInThousandths
    /\ Len(chkPolylines) = 2
    /\ \E i \in 1..2 : Len(chkPolylines[i].v) = 2 /\ chkPolylines[i].v[2] = <<chkBed[1], chkBed[2]>>
    /\ Accepted(chkResult)

\* No polyline at all on a bed 99.9996 mm wide and high.
C25_FineBedRejected ==
    /\ chkPc = "done"
    /\ ~BedInThousandths
    /\ chkPolylines = <<>>
    /\ ~Accepted(chkResult)


(***************************************************************************)
(* Properties of the checks of the points against the bed                  *)
(***************************************************************************)

\* A line of the body that carries an X and a Y, and these lie outside the
\* bed.
EmittedOutside(line) ==
    LET xMatch == MatchParam(line, "X", TRUE)
        yMatch == MatchParam(line, "Y", TRUE)
    IN /\ ~StartsWith(line, <<";">>)
       /\ xMatch /= <<>>
       /\ yMatch /= <<>>
       /\ \/ parseFloat(xMatch[1]) < 0
          \/ parseFloat(xMatch[1]) > sfSettings.bedWidth.v
          \/ parseFloat(yMatch[1]) < 0
          \/ parseFloat(yMatch[1]) > sfSettings.bedHeight.v

\* How many of the emitted points lie outside the bed.
EmittedOutsideCount == Cardinality({k \in 1..Len(sfEmitted) : EmittedOutside(sfEmitted[k])})

BothChecked == sfDone = {"generate", "collisions"}

ZeroPenOffset == sfSettings.penOffset.v[1].v = 0 /\ sfSettings.penOffset.v[2].v = 0

\* C26: _getSafetyWarnings counts a point as outside the bed exactly when
\* the X/Y generate emits for it lies outside the bed, and checkCollisions
\* counts the same points: for polylines that are all drawn, the three
\* counts are the same.
C26_ChecksAgreeWithEmitted ==
    BothChecked =>
        /\ sfWarnings.outOfBoundsPoints = EmittedOutsideCount
        /\ sfCollisions.outOfBounds = EmittedOutsideCount

\* Without a pen offset the three counts are the same.
C26_ChecksAgreeWithoutOffset ==
    (BothChecked /\ ZeroPenOffset) =>
        /\ sfWarnings.outOfBoundsPoints = EmittedOutsideCount
        /\ sfCollisions.outOfBounds = EmittedOutsideCount

\* With a pen offset the export check, the generator and the live check
\* give three different counts.
C26_ThreeDifferentCounts ==
    /\ BothChecked
    /\ sfWarnings.outOfBoundsPoints /= EmittedOutsideCount
    /\ sfCollisions.outOfBounds /= EmittedOutsideCount
    /\ sfCollisions.outOfBounds /= sfWarnings.outOfBoundsPoints


(***************************************************************************)
(* Properties of the exclusion zones                                       *)
(***************************************************************************)

\* Points inside, outside and on the boundaries of the rectangles.
ProbePoints ==
    {<<Num(0), Num(0)>>, <<Num(10), Num(10)>>, <<Num(20), Num(15)>>, <<Num(30), Num(20)>>,
     <<Num(35), Num(25)>>, <<Num(31), Num(19)>>, <<Num(36), Num(25)>>}

\* The point lies inside, boundaries included, at least one zone whose
\* enabled flag is true.
InEnabledZone(p) ==
    \E k \in 1..Len(exclusionZones.zones) :
        LET zone == exclusionZones.zones[k]
        IN /\ zone.enabled
           /\ zone.x <= p[1] /\ p[1] <= zone.x + zone.width
           /\ zone.y <= p[2] /\ p[2] <= zone.y + zone.height

\* What the live check reports for the point alone: _checkCollisions hands
\* the zones of the manager to checkCollisions.
LiveZoneCollisions(p) ==
    checkCollisions(<<Arr(<<p>>)>>, _getSettings(Arr(<<NumV(0), NumV(0), NumV(0)>>)),
                    getZones(exclusionZones)).zoneCollisions

\* C27: after any sequence of addZone, toggleZone, updateZone and
\* removeZone a point is a zone hit for isPointInAnyZone and for
\* checkCollisions if and only if it lies inside at least one enabled zone.
C27_OnlyEnabledZonesHit ==
    exclusionZones /= <<>> =>
        \A p \in ProbePoints :
            /\ isPointInAnyZone(exclusionZones, p[1], p[2]) <=> InEnabledZone(p)
            /\ LiveZoneCollisions(p) > 0 <=> InEnabledZone(p)

\* The half of C27 about isPointInAnyZone.
C27_AnyZoneTestSkipsDisabled ==
    exclusionZones /= <<>> =>
        \A p \in ProbePoints :
            isPointInAnyZone(exclusionZones, p[1], p[2]) <=> InEnabledZone(p)

\* A zone was disabled and the live check still reports a point in it.
C27_DisabledZoneReported ==
    /\ exclusionZones /= <<>>
    /\ zoneCall.op = "toggleZone"
    /\ \E p \in ProbePoints :
        /\ ~InEnabledZone(p)
        /\ ~isPointInAnyZone(exclusionZones, p[1], p[2])
        /\ LiveZoneCollisions(p) > 0


(***************************************************************************)
(* Properties of the src/js SVGManager                                     *)
(***************************************************************************)

\* Twice the centre of the box around the polylines returned.
TwiceResultCenter ==
    LET b == BoundsOf(PointsOf(ctrResult)) IN <<b[1] + b[3], b[2] + b[4]>>

\* C29: right after addSVG the box around getTransformedPolylines of the
\* new drawing has its centre in the centre of the bed, whatever the
\* original bounds, the mm scale and the initial scale.
C29_NewDrawingCentered ==
    ctrPc = "done" =>
        TwiceResultCenter = <<ctrManager.bedWidth, ctrManager.bedHeight>>

\* The same for drawings whose original bounds start in the origin.
C29_CenteredFromOrigin ==
    (ctrPc = "done" /\ ctrInput.originalBounds.minX = 0 /\ ctrInput.originalBounds.minY = 0) =>
        TwiceResultCenter = <<ctrManager.bedWidth, ctrManager.bedHeight>>

\* The centre lies off the bed's centre by the scaled least x and y of the
\* original bounds.
C29_OffByScaledMinimum ==
    ctrPc = "done" =>
        LET mm == MmScale([metadata |-> ctrInput.metadata])
            offX == Times(Times(ctrInput.originalBounds.minX, mm), ctrInput.initialScale)
            offY == Times(Times(ctrInput.originalBounds.minY, mm), ctrInput.initialScale)
        IN TwiceResultCenter = <<ctrManager.bedWidth - 2 * offX, ctrManager.bedHeight - 2 * offY>>

\* A drawing off the origin was added and is not centred.
C29_OffCenter ==
    /\ ctrPc = "done"
    /\ ctrInput.originalBounds.minX /= 0
    /\ TwiceResultCenter[1] /= ctrManager.bedWidth


(***************************************************************************)
(* Properties of saving and applying a project                             *)
(***************************************************************************)
ProjectApplied == projPc \in {"applied", "appliedByApp"}

\* One drawing per saved drawing, in the saved order, with the saved
\* polylines, translation, scale, rotation and visible flag.
DrawingsAsSaved ==
    /\ Len(projSvgManager.svgObjects) = Len(projData.svgs)
    /\ \A k \in 1..Len(projData.svgs) :
        LET now == projSvgManager.svgObjects[k]
            saved == projData.svgs[k]
        IN /\ now.polylines = saved.polylines
           /\ now.translation = saved.translation
           /\ now.scale = saved.scale
           /\ now.rotation = saved.rotation
           /\ now.visible = saved.visible

\* One zone per saved zone, with the saved name, x, y, width and height.
ZonesAsSaved ==
    /\ Len(projZones.zones) = Len(projData.exclusionZones)
    /\ \A k \in 1..Len(projData.exclusionZones) :
        LET now == projZones.zones[k]
            saved == projData.exclusionZones[k]
        IN /\ now.name = saved.name
           /\ now.x = saved.x
           /\ now.y = saved.y
           /\ now.width = saved.width
           /\ now.height = saved.height

\* C28: after createProject followed by applyProject or _applyProjectData
\* the collection holds the saved drawings, in order and with their
\* polylines, translation, scale, rotation and visible flag, and the saved
\* zones with their name, x, y, width and height.
C28_ProjectRoundTrip == ProjectApplied => (DrawingsAsSaved /\ ZonesAsSaved)

\* The part of C28 that holds: applyProject restores the drawings, and
\* both restore a project without zones.
C28_RoundTripWithoutZones ==
    /\ projPc = "applied" => DrawingsAsSaved
    /\ (ProjectApplied /\ projData.exclusionZones = <<>>) => (DrawingsAsSaved /\ ZonesAsSaved)

\* applyProject hands the saved name to addZone as x, and x, y and width
\* as y, width and height.
C28_ZoneFieldsShifted ==
    /\ projPc = "applied"
    /\ projData.exclusionZones /= <<>>
    /\ Len(projZones.zones) = Len(projData.exclusionZones)
    /\ projZones.zones[1].x = projData.exclusionZones[1].name
    /\ projZones.zones[1].y = projData.exclusionZones[1].x
    /\ projZones.zones[1].width = projData.exclusionZones[1].y
    /\ projZones.zones[1].height = projData.exclusionZones[1].width
    /\ projZones.zones[1].name = projData.exclusionZones[1].height

\* _applyProjectData threw on the first zone and restored nothing.
C28_NothingRestoredByApp ==
    /\ projPc = "appliedByApp"
    /\ projThrew
    /\ projData.svgs /= <<>>
    /\ projSvgManager.svgObjects = <<>>
    /\ projZones.zones = <<>>


(***************************************************************************)
(* Properties of the image import dialog                                   *)
(***************************************************************************)

\* show() was resolved by a click on Import.
Imported == dialog.resolved /= <<>> /\ dialog.resolved[1] /= Null

\* The conversion of the image under the dialog's parameters.  After the
\* click no listener is left to change them, so they are those current at
\* the click.
CurrentConversion ==
    convertToSVG(DlgImage, [threshold |-> dialog.threshold, simplify |-> dialog.simplify,
                            invert |-> dialog.invert])

\* C30: in every interleaving of parameter changes, the debounce timer,
\* the conversions and the clicks, Import resolves show() with the
\* conversion under the parameters current at the click, show() is
\* resolved once, and no conversion runs or reports an error after the
\* dialog has been closed.
C30_ImportIsCurrentAndNothingAfterClose ==
    dialog /= <<>> =>
        /\ Imported => dialog.resolved[1] = CurrentConversion
        /\ Len(dialog.resolved) <= 1
        /\ dialog.pc = "closed" => Len(dialog.resolved) = 1
        /\ dialog.afterClose = {}

\* The part of C30 that holds: show() is resolved when the dialog closes
\* and never a second time, and what Import hands over is the conversion
\* made last.
C30_ResolvedOnceWithLastConversion ==
    dialog /= <<>> =>
        /\ Len(dialog.resolved) <= 1
        /\ dialog.pc = "closed" <=> Len(dialog.resolved) = 1
        /\ Imported => dialog.resolved[1] = dialog.svgString

\* Import within the debounce delay: the SVG handed over is the conversion
\* under the former parameters.
C30_StaleImport ==
    /\ dialog /= <<>>
    /\ Imported
    /\ dialog.updateTimer = "cleared"
    /\ dialog.resolved[1] /= CurrentConversion

\* A conversion that was waiting when the dialog closed ran and reported
\* its error afterwards.
C30_ErrorAfterClose ==
    /\ dialog /= <<>>
    /\ dialog.pc = "closed"
    /\ "error" \in dialog.afterClose
    /\ dialog.alert = <<"Conversion failed">>

====
